---- MODULE Spec2Model ----
(***************************************************************************)
(* Session manager of tidbcloud_manager: exploration sessions, attempt     *)
(* recording, variable substitution and extraction, redacted persistence,  *)
(* scenario compilation (summary) and replay (rerun).                      *)
(*                                                                         *)
(* Data representation.                                                    *)
(*  - A JSON value is a record [k, v]: k is the kind ("null", "bool",      *)
(*    "int", "str", "dict", "list") and v the payload.                     *)
(*  - A Python string that the code scans (request strings, eval paths) is *)
(*    a sequence of lexemes.  The characters the code's regular            *)
(*    expressions and splits look at ("{", "}", "$", ".", "[", "]") are    *)
(*    lexemes of their own; every other lexeme is a maximal run of other   *)
(*    characters (a word).                                                 *)
(*  - A dict is a function from keys (words) to values.                    *)
(*  - timestamp and duration_ms of an attempt, created_at and updated_at   *)
(*    of a session are clock readings no operation branches on; they are   *)
(*    left out.                                                            *)
(***************************************************************************)
EXTENDS Integers, Sequences, FiniteSets, TLC

JNull == [k |-> "null", v |-> 0]
JStr(s) == [k |-> "str", v |-> s]
JInt(n) == [k |-> "int", v |-> n]
JDict(f) == [k |-> "dict", v |-> f]
JList(q) == [k |-> "list", v |-> q]
EmptyMap == [x \in {} |-> JNull]
EmptyDict == JDict(EmptyMap)

(***************************************************************************)
(* Words made only of [A-Za-z0-9_] (what _PLACEHOLDER_VALUE_RE accepts     *)
(* between the braces).                                                    *)
(***************************************************************************)
IdentWords ==
  {"cluster_1", "api_token", "token", "root_password", "pwd", "conn",
   "project_id", "p1", "s3cr3t", "pw1", "POST", "GET", "aws", "x", "us"}

\* _SENSITIVE_KEY_RE.search(k), over the keys the model uses.
IsSensitiveKey(key) == key \in {"rootPassword", "api_token", "token", "pwd"}

\* _PLACEHOLDER_VALUE_RE.match(v) for a string v.
IsPlaceholderValue(s) ==
  Len(s) = 3 /\ s[1] = "{" /\ s[3] = "}" /\ s[2] \in IdentWords

\* non-alphanumeric runs to "_", camel-case boundaries split, stripped, lowered.
_to_placeholder_name(key) ==
  CASE key = "rootPassword" -> "root_password"
    [] key = "api_token" -> "api_token"
    [] key = "token" -> "token"
    [] key = "pwd" -> "pwd"
    [] OTHER -> "redacted"

\* Variants of the redaction used to test the properties of the filter: the
\* placeholder built from the value instead of the key, and every key
\* treated as sensitive.
RECURSIVE RedactFromValue(_)
RedactFromValue(obj) ==
  IF obj.k = "dict"
  THEN JDict([key \in DOMAIN obj.v |->
         IF IsSensitiveKey(key)
         THEN IF obj.v[key].k = "str" /\ IsPlaceholderValue(obj.v[key].v)
              THEN obj.v[key]
              ELSE IF obj.v[key].k = "str"
              THEN JStr(<<"{">> \o obj.v[key].v \o <<"}">>)
              ELSE JStr(<<"{", _to_placeholder_name(key), "}">>)
         ELSE RedactFromValue(obj.v[key])])
  ELSE IF obj.k = "list"
  THEN JList([i \in DOMAIN obj.v |-> RedactFromValue(obj.v[i])])
  ELSE obj

RECURSIVE RedactEveryKey(_)
RedactEveryKey(obj) ==
  IF obj.k = "dict"
  THEN JDict([key \in DOMAIN obj.v |->
         IF obj.v[key].k = "str" /\ IsPlaceholderValue(obj.v[key].v)
         THEN obj.v[key]
         ELSE JStr(<<"{", _to_placeholder_name(key), "}">>)])
  ELSE IF obj.k = "list"
  THEN JList([i \in DOMAIN obj.v |-> RedactEveryKey(obj.v[i])])
  ELSE obj

RECURSIVE redact_sensitive_values(_)
redact_sensitive_values(obj) ==
  IF obj.k = "dict"
  THEN JDict([key \in DOMAIN obj.v |->
         IF IsSensitiveKey(key)
         THEN IF obj.v[key].k = "str" /\ IsPlaceholderValue(obj.v[key].v)
              THEN obj.v[key]
              ELSE JStr(<<"{", _to_placeholder_name(key), "}">>)
         ELSE redact_sensitive_values(obj.v[key])])
  ELSE IF obj.k = "list"
  THEN JList([i \in DOMAIN obj.v |-> redact_sensitive_values(obj.v[i])])
  ELSE obj

(***************************************************************************)
(* str(value) as substitute_variables inserts it.  The items of a dict or  *)
(* a list are written in one fixed order (Python: insertion order).        *)
(***************************************************************************)
RECURSIVE KeyOrder(_)
KeyOrder(S) ==
  IF S = {} THEN <<>>
  ELSE LET x == CHOOSE y \in S : TRUE IN <<x>> \o KeyOrder(S \ {x})

RECURSIVE PyRepr(_)
RECURSIVE PyReprItems(_, _)
RECURSIVE PyReprElems(_, _)
PyReprItems(f, keys) ==
  IF keys = <<>> THEN <<>>
  ELSE <<"'", Head(keys), "': ">> \o PyRepr(f[Head(keys)])
       \o (IF Len(keys) > 1 THEN <<", ">> ELSE <<>>)
       \o PyReprItems(f, Tail(keys))
PyReprElems(q, i) ==
  IF i > Len(q) THEN <<>>
  ELSE PyRepr(q[i]) \o (IF i < Len(q) THEN <<", ">> ELSE <<>>)
       \o PyReprElems(q, i + 1)
PyRepr(val) ==
  CASE val.k = "str" -> <<"'">> \o val.v \o <<"'">>
    [] val.k = "int" -> <<ToString(val.v)>>
    [] val.k = "bool" -> <<IF val.v THEN "True" ELSE "False">>
    [] val.k = "null" -> <<"None">>
    [] val.k = "dict" -> <<"{">> \o PyReprItems(val.v, KeyOrder(DOMAIN val.v)) \o <<"}">>
    [] val.k = "list" -> <<"[">> \o PyReprElems(val.v, 1) \o <<"]">>

PyStr(val) == IF val.k = "str" THEN val.v ELSE PyRepr(val)

(***************************************************************************)
(* Variable substitution                                                   *)
(***************************************************************************)
\* Position of the first lexeme c of s at or after i; 0 when there is none.
RECURSIVE IndexFrom(_, _, _)
IndexFrom(s, c, i) ==
  IF i > Len(s) THEN 0
  ELSE IF s[i] = c THEN i
  ELSE IndexFrom(s, c, i + 1)

\* re.findall(r"\{([^}]+)\}", s): the names, left to right, repeats kept.
\* A "{" at i and the first "}" after it at j (0: none): a match needs one
\* character or more between them.
RECURSIVE FindAllFrom(_, _)
FindAllMatch(s, i, j) ==
  IF j = 0 THEN <<>>
  ELSE IF j = i + 1 THEN FindAllFrom(s, i + 1)
  ELSE <<SubSeq(s, i + 1, j - 1)>> \o FindAllFrom(s, j + 1)

FindAllFrom(s, i) ==
  IF i > Len(s) THEN <<>>
  ELSE IF s[i] # "{" THEN FindAllFrom(s, i + 1)
  ELSE FindAllMatch(s, i, IndexFrom(s, "}", i + 1))

FindAll(s) == FindAllFrom(s, 1)

\* str.replace(old, new): every non-overlapping occurrence, left to right.
RECURSIVE StrReplace(_, _, _)
StrReplace(s, old, new) ==
  IF Len(s) < Len(old) THEN s
  ELSE IF SubSeq(s, 1, Len(old)) = old
  THEN new \o StrReplace(SubSeq(s, Len(old) + 1, Len(s)), old, new)
  ELSE <<s[1]>> \o StrReplace(Tail(s), old, new)

\* var_name in self.variables: the keys of the store are words.
InStore(name, variables) == Len(name) = 1 /\ name[1] \in DOMAIN variables

\* One turn of the loop "for var_name in matches".
SubstituteOne(result, var_name, variables) ==
  IF InStore(var_name, variables)
  THEN StrReplace(result, <<"{">> \o var_name \o <<"}">>, PyStr(variables[var_name[1]]))
  ELSE result

\* Variant of SubstituteMatches used to test the closure: only the first
\* match is looked up (re.search in place of re.findall).
SubstituteFirstMatch(result, matches, variables) ==
  IF matches = <<>> THEN result
  ELSE SubstituteOne(result, Head(matches), variables)

RECURSIVE SubstituteMatches(_, _, _)
SubstituteMatches(result, matches, variables) ==
  IF matches = <<>> THEN result
  ELSE SubstituteMatches(SubstituteOne(result, Head(matches), variables),
                         Tail(matches), variables)

RECURSIVE substitute_variables(_, _)
substitute_variables(obj, variables) ==
  IF obj.k = "str"
  THEN JStr(SubstituteMatches(obj.v, FindAll(obj.v), variables))
  ELSE IF obj.k = "dict"
  THEN JDict([key \in DOMAIN obj.v |-> substitute_variables(obj.v[key], variables)])
  ELSE IF obj.k = "list"
  THEN JList([i \in DOMAIN obj.v |-> substitute_variables(obj.v[i], variables)])
  ELSE obj

RECURSIVE SeqToSet(_)
SeqToSet(q) == IF q = <<>> THEN {} ELSE {Head(q)} \cup SeqToSet(Tail(q))

RECURSIVE find_required_variables(_)
find_required_variables(obj) ==
  IF obj.k = "str" THEN SeqToSet(FindAll(obj.v))
  ELSE IF obj.k = "dict"
  THEN UNION {find_required_variables(obj.v[key]) : key \in DOMAIN obj.v}
  ELSE IF obj.k = "list"
  THEN UNION {find_required_variables(obj.v[i]) : i \in DOMAIN obj.v}
  ELSE {}

(***************************************************************************)
(* Environment expansion (runtime.expand_env_vars).  A word between "${"   *)
(* and "}" that matches [A-Z0-9_]+(:-default)? is an environment           *)
(* reference; EnvRef gives its key and default, Environ the process        *)
(* environment.                                                            *)
(***************************************************************************)
EnvRef == [w \in {"REGION:-us", "API_HOST"} |->
            IF w = "REGION:-us" THEN [key |-> "REGION", default |-> <<"us">>]
            ELSE [key |-> "API_HOST", default |-> <<>>]]

Environ == [key \in {"API_HOST"} |-> <<"h1">>]

_repl(w) ==
  IF EnvRef[w].key \notin DOMAIN Environ \/ Environ[EnvRef[w].key] = <<>>
  THEN EnvRef[w].default
  ELSE Environ[EnvRef[w].key]

RECURSIVE ExpandStr(_)
ExpandStr(s) ==
  IF Len(s) < 4 THEN s
  ELSE IF s[1] = "$" /\ s[2] = "{" /\ s[3] \in DOMAIN EnvRef /\ s[4] = "}"
  THEN _repl(s[3]) \o ExpandStr(SubSeq(s, 5, Len(s)))
  ELSE <<s[1]>> \o ExpandStr(Tail(s))

RECURSIVE expand_env_vars(_)
expand_env_vars(obj) ==
  IF obj.k = "str" THEN JStr(ExpandStr(obj.v))
  ELSE IF obj.k = "dict"
  THEN JDict([key \in DOMAIN obj.v |-> expand_env_vars(obj.v[key])])
  ELSE IF obj.k = "list"
  THEN JList([i \in DOMAIN obj.v |-> expand_env_vars(obj.v[i])])
  ELSE obj

(***************************************************************************)
(* Value extraction.  An eval path is a sequence of lexemes, "." "[" "]"   *)
(* being lexemes of their own.  Every operator that can raise returns a    *)
(* record with a field raised.                                             *)
(***************************************************************************)
\* int(idx_str), for the index literals the model uses; anything else is a
\* ValueError.
IntLiteral == [w \in {"0", "1", "-1", "-5"} |->
                CASE w = "0" -> 0 [] w = "1" -> 1 [] w = "-1" -> 0 - 1
                  [] OTHER -> 0 - 5]

\* path.split("."): the segments, each a sequence of lexemes.
RECURSIVE SplitDots(_, _)
SplitDots(path, acc) ==
  IF path = <<>> THEN <<acc>>
  ELSE IF Head(path) = "." THEN <<acc>> \o SplitDots(Tail(path), <<>>)
  ELSE SplitDots(Tail(path), Append(acc, Head(path)))

\* The key a bare segment names: the segment's text.
SegmentKey(segment) ==
  IF segment = <<>> THEN ""
  ELSE IF Len(segment) = 1 THEN segment[1]
  ELSE "<text with brackets>"

\* One segment of _parse_path: the parts it appends, or a ValueError.  lb
\* and rb are the positions of the first "[" and the first "]" (0: none).
KeyPart(key) == [int |-> FALSE, key |-> key, idx |-> 0]
IndexPart(idx) == [int |-> TRUE, key |-> "", idx |-> idx]

ParseIndexed(base, idx_str, rb) ==
  IF rb = 0 \/ Len(idx_str) # 1 \/ idx_str[1] \notin DOMAIN IntLiteral
  THEN [raised |-> TRUE, parts |-> <<>>]
  ELSE [raised |-> FALSE,
        parts |-> (IF base # <<>> THEN <<KeyPart(SegmentKey(base))>> ELSE <<>>)
                  \o <<IndexPart(IntLiteral[idx_str[1]])>>]

ParseBrackets(segment, lb, rb) ==
  IF lb = 0
  THEN [raised |-> FALSE, parts |-> <<KeyPart(SegmentKey(segment))>>]
  ELSE ParseIndexed(SubSeq(segment, 1, lb - 1), SubSeq(segment, lb + 1, rb - 1), rb)

ParseSegment(segment) ==
  ParseBrackets(segment, IndexFrom(segment, "[", 1), IndexFrom(segment, "]", 1))

JoinParsed(h, t) ==
  IF h.raised \/ t.raised THEN [raised |-> TRUE, parts |-> <<>>]
  ELSE [raised |-> FALSE, parts |-> h.parts \o t.parts]

RECURSIVE ParseSegments(_)
ParseSegments(segments) ==
  IF segments = <<>> THEN [raised |-> FALSE, parts |-> <<>>]
  ELSE JoinParsed(ParseSegment(Head(segments)), ParseSegments(Tail(segments)))

_parse_path(path) == ParseSegments(SplitDots(path, <<>>))

\* One turn of the loop of extract_value.  JNull is None: the not-found
\* result, and also a JSON null that the path reaches.
RECURSIVE Walk(_, _)
WalkPart(current, part, rest) ==
  IF part.int
  THEN IF current.k = "list" /\ Len(current.v) > part.idx
       THEN IF part.idx >= 0
            THEN Walk(current.v[part.idx + 1], rest)
            ELSE IF Len(current.v) + part.idx >= 0
            THEN Walk(current.v[Len(current.v) + part.idx + 1], rest)
            ELSE [raised |-> TRUE, value |-> JNull]
       ELSE [raised |-> FALSE, value |-> JNull]
  ELSE IF current.k = "dict" /\ part.key \in DOMAIN current.v
       THEN Walk(current.v[part.key], rest)
       ELSE [raised |-> FALSE, value |-> JNull]

Walk(current, parts) ==
  IF parts = <<>> THEN [raised |-> FALSE, value |-> current]
  ELSE WalkPart(current, Head(parts), Tail(parts))

\* Variant of StripBody used to test the round trip: "body" cut off, the
\* "." after it left in the path.
StripBodyKeepDot(eval_path) ==
  IF Len(eval_path) >= 2 /\ eval_path[1] = "body" /\ eval_path[2] = "."
  THEN SubSeq(eval_path, 2, Len(eval_path))
  ELSE eval_path

StripBody(eval_path) ==
  IF Len(eval_path) >= 2 /\ eval_path[1] = "body" /\ eval_path[2] = "."
  THEN SubSeq(eval_path, 3, Len(eval_path))
  ELSE eval_path

WalkParsed(response, parsed) ==
  IF parsed.raised THEN [raised |-> TRUE, value |-> JNull]
  ELSE Walk(response, parsed.parts)

extract_value(response, eval_path) ==
  WalkParsed(response, _parse_path(StripBody(eval_path)))

(***************************************************************************)
(* A save_config is [none, placeholder]: none is TRUE for None (and for a  *)
(* falsy config), placeholder the list of entries [key, eval].  Its dict   *)
(* keys ("placeholder", "key", "eval") are not sensitive and its values    *)
(* are strings, so redact_sensitive_values returns it as it is.            *)
(* extract_and_save returns the store, the saved dict, the order in which  *)
(* the saved dict got its keys, and whether an entry raised (the store     *)
(* keeps what the entries before it wrote).                                *)
(***************************************************************************)
NoSave == [none |-> TRUE, placeholder |-> <<>>]
SaveConfig(entries) == [none |-> FALSE, placeholder |-> entries]

DictSet(f, key, val) == [x \in DOMAIN f \cup {key} |-> IF x = key THEN val ELSE f[x]]

\* One entry p of the placeholder list, r being extract_value's answer for
\* it when the entry has a key and a path.
RECURSIVE ExtractEntries(_, _, _, _, _)
ExtractEntry(response, rest, variables, saved, order, p, r) ==
  IF p.key = "" \/ p.eval = <<>>
  THEN ExtractEntries(response, rest, variables, saved, order)
  ELSE IF r.raised
  THEN [raised |-> TRUE, variables |-> variables, saved |-> saved, order |-> order]
  ELSE IF r.value # JNull
  THEN ExtractEntries(response, rest,
                      DictSet(variables, p.key, r.value),
                      DictSet(saved, p.key, r.value),
                      IF p.key \in DOMAIN saved THEN order ELSE Append(order, p.key))
  ELSE ExtractEntries(response, rest, variables, saved, order)

ExtractEntries(response, entries, variables, saved, order) ==
  IF entries = <<>>
  THEN [raised |-> FALSE, variables |-> variables, saved |-> saved, order |-> order]
  ELSE ExtractEntry(response, Tail(entries), variables, saved, order,
                    Head(entries), extract_value(response, Head(entries).eval))

extract_and_save(response, save_config, variables) ==
  IF save_config.none
  THEN [raised |-> FALSE, variables |-> variables, saved |-> EmptyMap, order |-> <<>>]
  ELSE ExtractEntries(response, save_config.placeholder, variables, EmptyMap, <<>>)

(***************************************************************************)
(* The executor collaborator.  What the network or the subprocess does is  *)
(* the environment's choice, an outcome [kind, body]:                      *)
(*   "ok"        a 2xx response / exit code 0, with a JSON body            *)
(*   "fail"      a non-2xx response / a non-zero exit code, with a body    *)
(*   "exception" requests.RequestException (connection error, timeout) /   *)
(*               subprocess.SubprocessError (TimeoutExpired)               *)
(*   "oserror"   subprocess.run cannot launch the tool (FileNotFoundError, *)
(*               PermissionError: OSError, no SubprocessError)             *)
(***************************************************************************)
ExecutionResult(success, status_code, body, error) ==
  [success |-> success, status_code |-> status_code, body |-> body, error |-> error]

execute_http(request, outcome) ==
  IF outcome.kind = "ok"
  THEN [raised |-> FALSE, result |-> ExecutionResult(TRUE, JInt(200), outcome.body, JNull)]
  ELSE IF outcome.kind = "fail"
  THEN [raised |-> FALSE,
        result |-> ExecutionResult(FALSE, JInt(500), outcome.body, JStr(<<"HTTP 500">>))]
  ELSE [raised |-> FALSE,
        result |-> ExecutionResult(FALSE, JNull, EmptyDict, JStr(<<"connection error">>))]

\* except subprocess.SubprocessError: whether the exception of a failed run
\* is caught.
CliExceptionCaught(outcome) == outcome.kind = "exception"

execute_cli(request, outcome) ==
  IF "tool" \notin DOMAIN request.v \/ request.v["tool"] = JStr(<<>>)
  THEN [raised |-> FALSE,
        result |-> ExecutionResult(FALSE, JNull, EmptyDict, JStr(<<"Missing 'tool' for CLI request">>))]
  ELSE IF "args" \in DOMAIN request.v /\ request.v["args"].k # "list"
  THEN [raised |-> FALSE,
        result |-> ExecutionResult(FALSE, JNull, EmptyDict, JStr(<<"'args' must be a list">>))]
  ELSE IF outcome.kind = "ok"
  THEN [raised |-> FALSE, result |-> ExecutionResult(TRUE, JInt(0), outcome.body, JNull)]
  ELSE IF outcome.kind = "fail"
  THEN [raised |-> FALSE,
        result |-> ExecutionResult(FALSE, JInt(1), outcome.body, JStr(<<"Exit 1">>))]
  ELSE IF CliExceptionCaught(outcome)
  THEN [raised |-> FALSE,
        result |-> ExecutionResult(FALSE, JNull, EmptyDict, JStr(<<"timed out">>))]
  ELSE [raised |-> TRUE,
        result |-> ExecutionResult(FALSE, JNull, EmptyDict, JNull)]

(***************************************************************************)
(* SessionManager.execute on a session object [variables, attempts]:       *)
(* whether it raised, the object afterwards, and the attempt it appended.  *)
(* The missing-variables warning goes to stderr and changes nothing.       *)
(***************************************************************************)
NoAttempt == [index |-> 0 - 1]

\* Variant of Dispatch used to test the handling of unknown types: every
\* type but "cli" is sent to execute_http (no else branch).
DispatchHttpByDefault(request_type, resolved_request, outcome) ==
  IF request_type = "cli" THEN execute_cli(resolved_request, outcome)
  ELSE execute_http(resolved_request, outcome)

Dispatch(request_type, resolved_request, outcome) ==
  IF request_type = "http" THEN execute_http(resolved_request, outcome)
  ELSE IF request_type = "cli" THEN execute_cli(resolved_request, outcome)
  ELSE [raised |-> FALSE,
        result |-> ExecutionResult(FALSE, JNull, EmptyDict,
                                   JStr(<<"Unknown request_type: ", request_type>>))]

ResolveRequest(request, variables) ==
  expand_env_vars(substitute_variables(request, variables))

MakeAttempt(index, operation_id, request_type, request, resolved_request, result, ex, save_config) ==
  [index |-> index,
   operation_id |-> operation_id,
   request_type |-> request_type,
   request |-> request,
   resolved_request |-> resolved_request,
   response |-> [status_code |-> result.status_code, body |-> result.body],
   success |-> result.success,
   error |-> result.error,
   saved_variables |-> JDict(ex.saved),
   saved_order |-> ex.order,
   save_config |-> save_config]

\* The end of execute: r is the executor's answer, ex what extraction did,
\* attempt the record built from them.
ExecuteEnd(session, r, ex, attempt) ==
  IF r.raised
  THEN [raised |-> TRUE, session |-> session, attempt |-> NoAttempt, result |-> r.result]
  ELSE IF ex.raised
  THEN [raised |-> TRUE, session |-> [session EXCEPT !.variables = ex.variables],
        attempt |-> NoAttempt, result |-> r.result]
  ELSE [raised |-> FALSE,
        session |-> [session EXCEPT !.variables = ex.variables,
                                    !.attempts = Append(@, attempt)],
        attempt |-> attempt, result |-> r.result]

ExecuteRecord(session, operation_id, request, save_config, request_type, resolved_request, r, ex) ==
  ExecuteEnd(session, r, ex,
             MakeAttempt(Len(session.attempts), operation_id, request_type, request,
                         resolved_request, r.result, ex, save_config))

\* saved_vars = self.extract_and_save(...) if result.success else {}
ExtractIfSuccess(session, save_config, r) ==
  IF r.raised
  THEN [raised |-> FALSE, variables |-> session.variables, saved |-> EmptyMap, order |-> <<>>]
  ELSE IF r.result.success
  THEN extract_and_save(r.result.body, save_config, session.variables)
  ELSE [raised |-> FALSE, variables |-> session.variables, saved |-> EmptyMap, order |-> <<>>]

ExecuteDispatched(session, operation_id, request, save_config, request_type, resolved_request, r) ==
  ExecuteRecord(session, operation_id, request, save_config, request_type, resolved_request,
                r, ExtractIfSuccess(session, save_config, r))

ExecuteResolved(session, operation_id, request, save_config, request_type, outcome, resolved_request) ==
  ExecuteDispatched(session, operation_id, request, save_config, request_type, resolved_request,
                    Dispatch(request_type, resolved_request, outcome))

execute(session, operation_id, request, save_config, request_type, outcome) ==
  ExecuteResolved(session, operation_id, request, save_config, request_type, outcome,
                  ResolveRequest(request, session.variables))

(***************************************************************************)
(* Persistence.  Both files hold the redacted projection of the session.   *)
(***************************************************************************)
RedactAttempt(a) ==
  [a EXCEPT !.request = redact_sensitive_values(@),
            !.resolved_request = redact_sensitive_values(@),
            !.response = [status_code |-> @.status_code,
                          body |-> redact_sensitive_values(@.body)],
            !.saved_variables = redact_sensitive_values(@)]

NoFile == [exists |-> FALSE, variables |-> EmptyMap, attempts |-> <<>>]

\* What save() writes into the session file.
SessionFileOf(session) ==
  [exists |-> TRUE,
   variables |-> redact_sensitive_values(JDict(session.variables)).v,
   attempts |-> [i \in DOMAIN session.attempts |-> RedactAttempt(session.attempts[i])]]

\* What _update_draft_yaml() writes into the draft log.
DraftFileOf(session) ==
  [exists |-> TRUE,
   variables |-> redact_sensitive_values(JDict(session.variables)).v,
   attempts |-> [i \in DOMAIN session.attempts |-> RedactAttempt(session.attempts[i])]]

\* SessionManager.load: the object built from a session file.
LoadedVariables(file) == file.variables

load(file) == [live |-> TRUE, variables |-> LoadedVariables(file), attempts |-> file.attempts]

(***************************************************************************)
(* Summary: the scenario compiler and the dependency validator.            *)
(* An operation id is the sequence of its "_"-separated parts.  A step     *)
(* name f"step_{n}_{name}" is the record [number, operation].  The key a   *)
(* Step.to_dict leaves out of the YAML file (save when falsy, max_retries  *)
(* and delay_after when 0) is held with the default rerun reads for it.    *)
(* validation_errors is held as a set: the order of the list follows the   *)
(* iteration order of a Python set of names.  sources is the position in   *)
(* the attempt log of the attempt each step was built from.                *)
(***************************************************************************)
Presets == [project_id |-> JStr(<<"p1">>)]

Lower == [w \in {"Clusters", "CreateCluster", "GetCluster", "ListItems", "describe"} |->
            CASE w = "Clusters" -> "clusters"
              [] w = "CreateCluster" -> "createcluster"
              [] w = "GetCluster" -> "getcluster"
              [] w = "ListItems" -> "listitems"
              [] OTHER -> "describe"]

_operation_to_name(operation_id) ==
  IF Len(operation_id) > 1
  THEN [i \in 1..(Len(operation_id) - 1) |-> Lower[operation_id[i + 1]]]
  ELSE <<Lower[operation_id[1]]>>

\* A compiler that kept every attempt outside the remove set, failed or not.
\* A compiler that ignored remove_indices (successful attempts all kept).
RetainedIfSuccessful(attempt, remove_set) == attempt.success

RetainedUnlessRemoved(attempt, remove_set) == ~(attempt.index \in remove_set)

\* The two "continue" tests at the head of summary's loop.
Retained(attempt, remove_set) ==
  ~(attempt.index \in remove_set) /\ attempt.success

StepName(step_number, operation_id) ==
  [number |-> step_number, operation |-> _operation_to_name(operation_id)]

\* A compiler that dropped the save configuration of every step.
StepWithoutSave(attempt) == NoSave

\* save=attempt.save_config if attempt.save_config else None
StepSave(attempt) ==
  IF attempt.save_config.none THEN NoSave ELSE attempt.save_config

\* A compiler that wrote the request that was sent (resolved_request).
MakeStepFromResolved(step_number, attempt) ==
  [name |-> StepName(step_number, attempt.operation_id),
   operation_id |-> attempt.operation_id,
   request_type |-> attempt.request_type,
   request |-> redact_sensitive_values(attempt.resolved_request),
   expect |-> [status_code |-> attempt.response.status_code],
   save |-> StepSave(attempt),
   max_retries |-> 0,
   delay_after |-> 0]

MakeStep(step_number, attempt) ==
  [name |-> StepName(step_number, attempt.operation_id),
   operation_id |-> attempt.operation_id,
   request_type |-> attempt.request_type,
   request |-> redact_sensitive_values(attempt.request),
   expect |-> [status_code |-> attempt.response.status_code],
   save |-> StepSave(attempt),
   max_retries |-> 0,
   delay_after |-> 0]

EmptyChains ==
  [step_number |-> 0, final_steps |-> <<>>, sources |-> <<>>,
   saved_vars_chain |-> [x \in {} |-> 0],
   required_vars_chain |-> [x \in {} |-> <<>>]]

\* The body of summary's loop for a retained attempt, attempts[i]: saved are
\* the names it saved, required the names its request refers to.
SummaryStep(acc, attempt, i, step_number, saved, required) ==
  [step_number |-> step_number,
   final_steps |-> Append(acc.final_steps, MakeStep(step_number, attempt)),
   sources |-> Append(acc.sources, i),
   saved_vars_chain |->
     [x \in DOMAIN acc.saved_vars_chain \cup saved |->
        IF x \in saved THEN step_number ELSE acc.saved_vars_chain[x]],
   required_vars_chain |->
     [x \in DOMAIN acc.required_vars_chain \cup required |->
        IF x \in required
        THEN Append(IF x \in DOMAIN acc.required_vars_chain
                    THEN acc.required_vars_chain[x] ELSE <<>>,
                    step_number)
        ELSE acc.required_vars_chain[x]]]

RECURSIVE SummaryLoop(_, _, _, _)
SummaryLoop(attempts, remove_set, i, acc) ==
  IF i > Len(attempts) THEN acc
  ELSE IF ~Retained(attempts[i], remove_set)
  THEN SummaryLoop(attempts, remove_set, i + 1, acc)
  ELSE SummaryLoop(attempts, remove_set, i + 1,
                   SummaryStep(acc, attempts[i], i, acc.step_number + 1,
                               DOMAIN attempts[i].saved_variables.v,
                               find_required_variables(attempts[i].request)))

\* A validator that let a step use the variable it saves itself.
UsedStrictlyBeforeSaved(use_step, save_step) == use_step < save_step

\* if use_step <= save_step: the use is reported as made before the save.
UsedBeforeSaved(use_step, save_step) == use_step <= save_step

\* The names the validator looks at (not preset), and those never saved.
CheckedVars(required_vars_chain) ==
  {n \in DOMAIN required_vars_chain : ~InStore(n, Presets)}

NeverSaved(saved_vars_chain, required_vars_chain) ==
  {n \in CheckedVars(required_vars_chain) : ~InStore(n, saved_vars_chain)}

NeverSavedError(n, step_indices) ==
  [kind |-> "never saved", var |-> n, use_steps |-> step_indices,
   use_step |-> 0, save_step |-> 0]

BeforeSavedErrors(n, step_indices, save_step) ==
  {[kind |-> "used before saved", var |-> n, use_steps |-> <<>>,
    use_step |-> step_indices[j], save_step |-> save_step] :
     j \in {j \in DOMAIN step_indices : UsedBeforeSaved(step_indices[j], save_step)}}

ValidationErrors(saved_vars_chain, required_vars_chain) ==
  {NeverSavedError(n, required_vars_chain[n]) :
     n \in NeverSaved(saved_vars_chain, required_vars_chain)}
  \cup
  UNION {BeforeSavedErrors(n, required_vars_chain[n], saved_vars_chain[n[1]]) :
           n \in {m \in CheckedVars(required_vars_chain) : InStore(m, saved_vars_chain)}}

NoFinal == [exists |-> FALSE, session |-> "", steps |-> <<>>]

\* _generate_final_yaml: what is written into the final scenario file.
FinalFileOf(session_id, final_steps) ==
  [exists |-> TRUE, session |-> session_id, steps |-> final_steps]

SummaryResult(session, remove_set, acc) ==
  [final_steps |-> acc.final_steps,
   sources |-> acc.sources,
   total_attempts |-> Len(session.attempts),
   success_attempts |-> Cardinality({i \in DOMAIN session.attempts : session.attempts[i].success}),
   removed_attempts |-> Cardinality(remove_set),
   saved_variables |-> DOMAIN acc.saved_vars_chain,
   validation_errors |-> ValidationErrors(acc.saved_vars_chain, acc.required_vars_chain)]

summary(session, remove_set) ==
  SummaryResult(session, remove_set,
                SummaryLoop(session.attempts, remove_set, 1, EmptyChains))

(***************************************************************************)
(* The condition evaluator and the poller of the executor.  A condition    *)
(* is a string whose blanks, quotes and "==" are lexemes of their own.     *)
(* time.sleep between two polls changes nothing and is left out.           *)
(***************************************************************************)
RECURSIVE LStrip(_, _)
LStrip(s, c) == IF s # <<>> /\ Head(s) = c THEN LStrip(Tail(s), c) ELSE s

RECURSIVE RStrip(_, _)
RStrip(s, c) ==
  IF s # <<>> /\ s[Len(s)] = c THEN RStrip(SubSeq(s, 1, Len(s) - 1), c) ELSE s

\* str.strip() for c = " ", str.strip(c) for a quote c.
Strip(s, c) == RStrip(LStrip(s, c), c)

\* for part in path.split("."): only mappings are entered, by the segment's
\* text as a key.
RECURSIVE WalkKeys(_, _)
WalkKeys(current, segments) ==
  IF segments = <<>> THEN [found |-> TRUE, value |-> current]
  ELSE IF current.k = "dict" /\ SegmentKey(Head(segments)) \in DOMAIN current.v
  THEN WalkKeys(current.v[SegmentKey(Head(segments))], Tail(segments))
  ELSE [found |-> FALSE, value |-> JNull]

\* An evaluator that compared repr(current) with the literal.
CelMatchesRepr(w, expected) == w.found /\ PyRepr(w.value) = expected

\* return str(current) == expected
CelMatches(w, expected) == w.found /\ PyStr(w.value) = expected

CompareCel(body, left, right) ==
  IF Len(left) >= 2 /\ left[1] = "body" /\ left[2] = "."
  THEN CelMatches(WalkKeys(body, SplitDots(SubSeq(left, 3, Len(left)), <<>>)),
                  Strip(Strip(Strip(right, " "), "'"), "\""))
  ELSE FALSE

\* eq is the position of the first "==" of expr (0: none).
SplitCel(body, expr, eq) ==
  IF eq = 0 THEN FALSE
  ELSE CompareCel(body, Strip(SubSeq(expr, 1, eq - 1), " "),
                  Strip(SubSeq(expr, eq + 1, Len(expr)), " "))

EvaluateStripped(body, expr) == SplitCel(body, expr, IndexFrom(expr, "==", 1))

_evaluate_expect(body, expect) ==
  IF expect = <<>> THEN TRUE ELSE EvaluateStripped(body, Strip(expect, " "))

\* poll_until_ready: outcomes[i] is what the network does at the i-th call.
\* The answer is the result returned and the number of calls made.
RECURSIVE PollFrom(_, _, _, _, _)
\* A poller that stopped at the first successful response, whatever the
\* condition says of it.
PollCallUntilSuccess(request, expect_cel, outcomes, i, max_retries, last) ==
  IF last.success
  THEN [result |-> last, calls |-> i]
  ELSE IF i >= max_retries THEN [result |-> last, calls |-> i]
  ELSE PollFrom(request, expect_cel, outcomes, i + 1, max_retries)

PollCall(request, expect_cel, outcomes, i, max_retries, last) ==
  IF last.success /\ _evaluate_expect(last.body, expect_cel)
  THEN [result |-> last, calls |-> i]
  ELSE IF i >= max_retries THEN [result |-> last, calls |-> i]
  ELSE PollFrom(request, expect_cel, outcomes, i + 1, max_retries)

PollFrom(request, expect_cel, outcomes, i, max_retries) ==
  PollCall(request, expect_cel, outcomes, i, max_retries,
           execute_http(request, outcomes[i]).result)

poll_until_ready(request, expect_cel, max_retries, outcomes) ==
  IF max_retries <= 0
  THEN [result |-> ExecutionResult(FALSE, JNull, EmptyDict, JStr(<<"No attempts executed">>)),
        calls |-> 0]
  ELSE PollFrom(request, expect_cel, outcomes, 1, max_retries)

(***************************************************************************)
(* Rerun: the replay of the final scenario in a fresh session.             *)
(* outcomes[k] is what the executor does at step k: one outcome for a step *)
(* run by rerun_session.execute, one per poll for a polled step.  An       *)
(* exception of a step leaves rerun at once.  A polled step appends its    *)
(* attempt and writes no file; persisted is the replay session as its      *)
(* files hold it, completed the number of executes that wrote them, calls  *)
(* the number of calls made to the executor.                               *)
(***************************************************************************)
\* SessionManager.__init__: the store starts as the SUT's preset variables.
NewSession == [live |-> TRUE, variables |-> Presets, attempts |-> <<>>]

NoSession == [live |-> FALSE, variables |-> EmptyMap, attempts |-> <<>>]

\* cel_condition = expect.get("cel", "")
StepCel(step) == IF "cel" \in DOMAIN step.expect THEN step.expect.cel ELSE <<>>

\* A replay that polled every step with a retry budget and a condition,
\* whatever its request type.
IsPolledAnyType(step) ==
  step.max_retries > 0 /\ StepCel(step) # <<>>

\* if max_retries > 0: ... if cel_condition and request_type == "http":
IsPolled(step) ==
  step.max_retries > 0 /\ StepCel(step) # <<>> /\ step.request_type = "http"

\* execute calls the executor once, unless the request type is unknown.
ExecutorCalls(request_type) == IF request_type \in {"http", "cli"} THEN 1 ELSE 0

\* One turn of rerun's loop: e is what the step's execution did, polled
\* whether it was run by polling, calls the executor calls it made.
ReplayStep(acc, step, e, polled, calls) ==
  IF e.raised
  THEN [acc EXCEPT !.raised = TRUE, !.session = e.session, !.calls = @ + calls]
  ELSE [raised |-> FALSE,
        session |-> e.session,
        persisted |-> IF polled THEN acc.persisted ELSE e.session,
        completed |-> IF polled THEN acc.completed ELSE acc.completed + 1,
        calls |-> acc.calls + calls,
        responses |-> Append(acc.responses, e.result),
        results |-> Append(acc.results,
                           [step |-> step.name,
                            success |-> e.attempt.success,
                            error |-> e.attempt.error,
                            saved |-> e.attempt.saved_order]),
        all_success |-> acc.all_success /\ e.attempt.success]

\* The polled branch: the attempt is built and appended by rerun itself.
\* A polled branch that recorded a step as successful only when the
\* condition held on the response it ended with.
PolledEndIfConditionHeld(session, step, resolved_request, p, r, ex) ==
  [e |-> ExecuteEnd(session, r, ex,
                    MakeAttempt(Len(session.attempts), step.operation_id, step.request_type,
                                step.request, resolved_request,
                                [p.result EXCEPT
                                   !.success = @ /\ _evaluate_expect(p.result.body, StepCel(step))],
                                ex, step.save)),
   calls |-> p.calls]

PolledEnd(session, step, resolved_request, p, r, ex) ==
  [e |-> ExecuteEnd(session, r, ex,
                    MakeAttempt(Len(session.attempts), step.operation_id, step.request_type,
                                step.request, resolved_request, p.result, ex, step.save)),
   calls |-> p.calls]

PolledResult(session, step, resolved_request, p, r) ==
  PolledEnd(session, step, resolved_request, p, r, ExtractIfSuccess(session, step.save, r))

Polled(session, step, resolved_request, p) ==
  PolledResult(session, step, resolved_request, p, [raised |-> FALSE, result |-> p.result])

PollResolved(session, step, resolved_request, outcomes) ==
  Polled(session, step, resolved_request,
         poll_until_ready(resolved_request, StepCel(step), step.max_retries, outcomes))

PollStep(session, step, outcomes) ==
  PollResolved(session, step, substitute_variables(step.request, session.variables), outcomes)

ReplayPolled(acc, step, pe) == ReplayStep(acc, step, pe.e, TRUE, pe.calls)

RECURSIVE ReplaySteps(_, _, _, _)
ReplaySteps(steps, outcomes, k, acc) ==
  IF k > Len(steps) \/ acc.raised THEN acc
  ELSE IF IsPolled(steps[k])
  THEN ReplaySteps(steps, outcomes, k + 1,
                   ReplayPolled(acc, steps[k], PollStep(acc.session, steps[k], outcomes[k])))
  ELSE ReplaySteps(steps, outcomes, k + 1,
                   ReplayStep(acc, steps[k],
                              execute(acc.session, steps[k].operation_id, steps[k].request,
                                      steps[k].save, steps[k].request_type, outcomes[k][1]),
                              FALSE, ExecutorCalls(steps[k].request_type)))

\* A replay that began with a value of the exploration in its store.
ReplayStartWithCluster ==
  [raised |-> FALSE,
   session |-> [NewSession EXCEPT
                  !.variables = DictSet(Presets, "cluster_1", JStr(<<"c-123">>))],
   persisted |-> NewSession,
   completed |-> 0, calls |-> 0, responses |-> <<>>, results |-> <<>>,
   all_success |-> TRUE]

ReplayStart ==
  [raised |-> FALSE, session |-> NewSession, persisted |-> NewSession,
   completed |-> 0, calls |-> 0, responses |-> <<>>, results |-> <<>>,
   all_success |-> TRUE]

NoScenario ==
  [raised |-> FALSE, has_scenario |-> FALSE, success |-> FALSE,
   error |-> "No final YAML file. Run summary first.",
   steps |-> <<>>, variables |-> EmptyMap, responses |-> <<>>, calls |-> 0,
   rerun_session |-> NoSession, rerun_session_file |-> NoFile,
   rerun_draft_file |-> NoFile]

\* What rerun leaves behind and returns once its loop has ended (acc.raised:
\* ended by the exception of a step, before rerun_session.save()).
RerunResult(acc) ==
  [raised |-> acc.raised, has_scenario |-> TRUE,
   success |-> acc.all_success, error |-> "",
   steps |-> acc.results, variables |-> acc.session.variables,
   responses |-> acc.responses, calls |-> acc.calls,
   rerun_session |-> acc.session,
   rerun_session_file |->
     IF ~acc.raised THEN SessionFileOf(acc.session)
     ELSE IF acc.completed > 0 THEN SessionFileOf(acc.persisted)
     ELSE NoFile,
   rerun_draft_file |->
     IF acc.completed > 0 THEN DraftFileOf(acc.persisted) ELSE NoFile]

rerun(final_file, outcomes) ==
  IF ~final_file.exists THEN NoScenario
  ELSE RerunResult(ReplaySteps(final_file.steps, outcomes, 1, ReplayStart))

(***************************************************************************)
(* The inputs of the model: requests, response bodies, save configs, the   *)
(* commands a caller issues and the outcomes of the executor.              *)
(***************************************************************************)
MaxCalls == 2

AllSessions == {"s1", "s2"}
Sessions == {"s1"}
ScenarioName == [s \in AllSessions |-> "demo"]
ScenarioNames == {ScenarioName[s] : s \in AllSessions}

ReqCreate ==
  JDict([method |-> JStr(<<"POST">>),
         path |-> JStr(<<"/projects/", "{", "project_id", "}", "/clusters">>),
         body |-> JDict([rootPassword |-> JStr(<<"pw1">>)])])

ReqGet ==
  JDict([method |-> JStr(<<"GET">>),
         path |-> JStr(<<"/clusters/", "{", "cluster_1", "}">>),
         headers |-> JDict([Authorization |-> JStr(<<"Bearer ", "{", "api_token", "}">>)])])

ReqCli ==
  JDict([tool |-> JStr(<<"aws">>),
         args |-> JList(<<JStr(<<"{", "cluster_1", "}">>),
                          JStr(<<"$", "{", "REGION:-us", "}">>)>>)])

BodyCluster ==
  JDict([clusterId |-> JStr(<<"c-123">>),
         token |-> JStr(<<"s3cr3t">>),
         conn |-> JDict([pwd |-> JStr(<<"pw1">>)]),
         items |-> JList(<<JInt(7)>>)])

SaveCluster ==
  SaveConfig(<<[key |-> "cluster_1", eval |-> <<"body", ".", "clusterId">>]>>)

SaveToken ==
  SaveConfig(<<[key |-> "api_token", eval |-> <<"body", ".", "token">>],
               [key |-> "conn", eval |-> <<"body", ".", "conn">>]>>)

SaveBadIndex ==
  SaveConfig(<<[key |-> "cluster_1", eval |-> <<"body", ".", "clusterId">>],
               [key |-> "x", eval |-> <<"body", ".", "items", "[", "x", "]">>]>>)

Command(operation_id, request_type, request, save_config) ==
  [operation_id |-> operation_id, request_type |-> request_type,
   request |-> request, save_config |-> save_config]

Commands ==
  {Command(<<"Clusters", "CreateCluster">>, "http", ReqCreate, SaveCluster),
   Command(<<"Clusters", "GetCluster">>, "http", ReqGet, SaveToken),
   Command(<<"describe">>, "cli", ReqCli, SaveCluster),
   Command(<<"Clusters", "GetCluster">>, "grpc", ReqGet, SaveCluster),
   Command(<<"Clusters", "ListItems">>, "http", ReqGet, SaveBadIndex)}

Outcome(kind, body) == [kind |-> kind, body |-> body]

HttpOutcomes ==
  {Outcome("ok", BodyCluster), Outcome("fail", BodyCluster), Outcome("exception", EmptyDict)}

CliOutcomes ==
  {Outcome("ok", EmptyDict), Outcome("fail", EmptyDict),
   Outcome("exception", EmptyDict), Outcome("oserror", EmptyDict)}

\* An unknown request type reaches no executor: there is nothing to choose.
NoOutcome == Outcome("none", EmptyDict)

Outcomes(request_type) ==
  IF request_type = "http" THEN HttpOutcomes
  ELSE IF request_type = "cli" THEN CliOutcomes
  ELSE {NoOutcome}

\* What the executor may do at one step: one outcome per call it gets.
StepOutcomes(step) ==
  IF IsPolled(step) THEN [1..step.max_retries -> HttpOutcomes]
  ELSE {<<o>> : o \in Outcomes(step.request_type)}

RECURSIVE ReplayOutcomes(_)
ReplayOutcomes(steps) ==
  IF steps = <<>> THEN {<<>>}
  ELSE {<<h>> \o t : h \in StepOutcomes(Head(steps)), t \in ReplayOutcomes(Tail(steps))}

RemoveSets == SUBSET (0..(MaxCalls - 1))

(***************************************************************************)
(* State.                                                                  *)
(*   mem             the SessionManager object of each session             *)
(*   session_file    output/.session_<id>.json                             *)
(*   draft_yaml_file output/.draft_<scenario>.yaml                         *)
(*   final_yaml_file output/<scenario>.yaml                                *)
(*   ret             what the last operation returned (or that it raised), *)
(*                   with the inputs it was given and the store it found   *)
(* History, read by no operation:                                          *)
(*   ncalls          the number of execute calls made on each session      *)
(*   responses       the executor's results, one per recorded attempt      *)
(*   compiled        the session and the attempts (positions in its log)   *)
(*                   the final scenario file was compiled from, and the    *)
(*                   sessions that ever compiled it (by)                   *)
(***************************************************************************)
VARIABLES mem, session_file, draft_yaml_file, final_yaml_file, ret,
          ncalls, responses, compiled

vars == <<mem, session_file, draft_yaml_file, final_yaml_file, ret,
          ncalls, responses, compiled>>

Init ==
  /\ mem = [s \in AllSessions |-> NoSession]
  /\ session_file = [s \in AllSessions |-> NoFile]
  /\ draft_yaml_file = [n \in ScenarioNames |-> NoFile]
  /\ final_yaml_file = [n \in ScenarioNames |-> NoFinal]
  /\ ret = [op |-> "none"]
  /\ ncalls = [s \in AllSessions |-> 0]
  /\ responses = [s \in AllSessions |-> <<>>]
  /\ compiled = [n \in ScenarioNames |-> [session |-> "", sources |-> <<>>, by |-> {}]]

\* main, command "new": a session object is built and saved.
New(s) ==
  /\ ~mem[s].live
  /\ ~session_file[s].exists
  /\ mem' = [mem EXCEPT ![s] = NewSession]
  /\ session_file' = [session_file EXCEPT ![s] = SessionFileOf(NewSession)]
  /\ ret' = [op |-> "new", sid |-> s, store_before |-> mem[s].variables,
             success |-> TRUE, variables |-> NewSession.variables]
  /\ UNCHANGED <<draft_yaml_file, final_yaml_file, ncalls, responses, compiled>>

\* find_session: the object every CLI command works on is loaded from the
\* session file.
Load(s) ==
  /\ session_file[s].exists
  /\ mem' = [mem EXCEPT ![s] = load(session_file[s])]
  /\ ret' = [op |-> "load", sid |-> s,
             store_before |-> mem[s].variables,
             in_sync |-> mem[s].live /\ session_file[s] = SessionFileOf(mem[s])]
  /\ UNCHANGED <<session_file, draft_yaml_file, final_yaml_file, ncalls, responses, compiled>>

SaveSession(s) ==
  /\ mem[s].live
  /\ session_file' = [session_file EXCEPT ![s] = SessionFileOf(mem[s])]
  /\ ret' = [op |-> "save", sid |-> s, store_before |-> mem[s].variables]
  /\ UNCHANGED <<mem, draft_yaml_file, final_yaml_file, ncalls, responses, compiled>>

\* e is what execute did.  An execute that raised wrote no file.
ExecuteEffect(s, c, outcome, e) ==
  /\ mem' = [mem EXCEPT ![s] = e.session]
  /\ ncalls' = [ncalls EXCEPT ![s] = @ + 1]
  /\ ret' = [op |-> "execute", sid |-> s, raised |-> e.raised,
             command |-> c, outcome |-> outcome,
             store_before |-> mem[s].variables,
             attempts_before |-> Len(mem[s].attempts),
             result |-> e.result,
             attempt |-> e.attempt,
             all_variables |-> e.session.variables]
  /\ IF e.raised
     THEN UNCHANGED <<session_file, draft_yaml_file, responses>>
     ELSE /\ draft_yaml_file' =
               [draft_yaml_file EXCEPT ![ScenarioName[s]] = DraftFileOf(e.session)]
          /\ session_file' = [session_file EXCEPT ![s] = SessionFileOf(e.session)]
          /\ responses' = [responses EXCEPT ![s] = Append(@, e.result)]
  /\ UNCHANGED <<final_yaml_file, compiled>>

Execute(s, c, outcome) ==
  /\ mem[s].live
  /\ ncalls[s] < MaxCalls
  /\ ExecuteEffect(s, c, outcome,
                   execute(mem[s], c.operation_id, c.request, c.save_config,
                           c.request_type, outcome))

Status(s) ==
  /\ mem[s].live
  /\ ret' = [op |-> "status", sid |-> s, store_before |-> mem[s].variables,
             variables |-> redact_sensitive_values(JDict(mem[s].variables)).v,
             total |-> Len(mem[s].attempts),
             success_count |-> Cardinality({i \in DOMAIN mem[s].attempts : mem[s].attempts[i].success}),
             final_yaml |-> final_yaml_file[ScenarioName[s]].exists]
  /\ UNCHANGED <<mem, session_file, draft_yaml_file, final_yaml_file, ncalls, responses, compiled>>

\* A summary that dropped the excluded attempts from the session's log.
SummaryEffectPruning(s, remove_set, r) ==
  /\ final_yaml_file' =
       [final_yaml_file EXCEPT ![ScenarioName[s]] = FinalFileOf(s, r.final_steps)]
  /\ compiled' = [compiled EXCEPT ![ScenarioName[s]] =
                    [session |-> s, sources |-> r.sources,
                     by |-> compiled[ScenarioName[s]].by \cup {s}]]
  /\ ret' = [op |-> "summary", sid |-> s, store_before |-> mem[s].variables,
             steps_before |-> Len(final_yaml_file[ScenarioName[s]].steps),
             remove_set |-> remove_set,
             total_attempts |-> r.total_attempts,
             success_attempts |-> r.success_attempts,
             removed_attempts |-> r.removed_attempts,
             final_steps |-> Len(r.final_steps),
             saved_variables |-> r.saved_variables,
             validation_errors |-> r.validation_errors]
  /\ mem' = [mem EXCEPT ![s].attempts =
               SelectSeq(@, LAMBDA a : a.index \notin remove_set)]
  /\ UNCHANGED <<session_file, draft_yaml_file, ncalls, responses>>

\* A summary that opened the scenario file for appending: the compiled
\* steps are added to those the file holds.
SummaryEffectAppending(s, remove_set, r) ==
  /\ final_yaml_file' =
       [final_yaml_file EXCEPT ![ScenarioName[s]] =
          FinalFileOf(s, @.steps \o r.final_steps)]
  /\ compiled' = [compiled EXCEPT ![ScenarioName[s]] =
                    [session |-> s, sources |-> r.sources,
                     by |-> compiled[ScenarioName[s]].by \cup {s}]]
  /\ ret' = [op |-> "summary", sid |-> s, store_before |-> mem[s].variables,
             steps_before |-> Len(final_yaml_file[ScenarioName[s]].steps),
             remove_set |-> remove_set,
             total_attempts |-> r.total_attempts,
             success_attempts |-> r.success_attempts,
             removed_attempts |-> r.removed_attempts,
             final_steps |-> Len(r.final_steps),
             saved_variables |-> r.saved_variables,
             validation_errors |-> r.validation_errors]
  /\ UNCHANGED <<mem, session_file, draft_yaml_file, ncalls, responses>>

SummaryEffect(s, remove_set, r) ==
  /\ final_yaml_file' =
       [final_yaml_file EXCEPT ![ScenarioName[s]] = FinalFileOf(s, r.final_steps)]
  /\ compiled' = [compiled EXCEPT ![ScenarioName[s]] =
                    [session |-> s, sources |-> r.sources,
                     by |-> compiled[ScenarioName[s]].by \cup {s}]]
  /\ ret' = [op |-> "summary", sid |-> s, store_before |-> mem[s].variables,
             steps_before |-> Len(final_yaml_file[ScenarioName[s]].steps),
             remove_set |-> remove_set,
             total_attempts |-> r.total_attempts,
             success_attempts |-> r.success_attempts,
             removed_attempts |-> r.removed_attempts,
             final_steps |-> Len(r.final_steps),
             saved_variables |-> r.saved_variables,
             validation_errors |-> r.validation_errors]
  /\ UNCHANGED <<mem, session_file, draft_yaml_file, ncalls, responses>>

Summary(s, remove_set) ==
  /\ mem[s].live
  /\ SummaryEffect(s, remove_set, summary(mem[s], remove_set))

\* The replay session is a new one, under a name of its own: its files are
\* held in ret, with what rerun returned.
RerunEffect(s, outcomes, r) ==
  /\ ret' = [op |-> "rerun", sid |-> s, store_before |-> mem[s].variables,
             outcomes |-> outcomes,
             raised |-> r.raised,
             has_scenario |-> r.has_scenario,
             success |-> r.success, error |-> r.error,
             steps |-> r.steps, variables |-> r.variables,
             responses |-> r.responses, calls |-> r.calls,
             rerun_session |-> r.rerun_session,
             rerun_session_file |-> r.rerun_session_file,
             rerun_draft_file |-> r.rerun_draft_file]
  /\ UNCHANGED <<mem, session_file, draft_yaml_file, final_yaml_file, ncalls, responses, compiled>>

Rerun(s, outcomes) ==
  /\ mem[s].live
  /\ RerunEffect(s, outcomes, rerun(final_yaml_file[ScenarioName[s]], outcomes))

Next ==
  \/ \E s \in Sessions : New(s)
  \/ \E s \in Sessions : Load(s)
  \/ \E s \in Sessions : SaveSession(s)
  \/ \E s \in Sessions : \E c \in Commands : \E outcome \in Outcomes(c.request_type) :
       Execute(s, c, outcome)
  \/ \E s \in Sessions : Status(s)
  \/ \E s \in Sessions : \E remove_set \in RemoveSets : Summary(s, remove_set)
  \/ \E s \in Sessions :
       \E outcomes \in ReplayOutcomes(final_yaml_file[ScenarioName[s]].steps) :
         Rerun(s, outcomes)

Spec == Init /\ [][Next]_vars

(***************************************************************************)
(* Two sessions of the same scenario name, worked on in turn.  MaxCalls    *)
(* bounds the execute calls of the two together.                           *)
(***************************************************************************)
ExecuteOfTwo(s, c, outcome) ==
  /\ ncalls["s1"] + ncalls["s2"] < MaxCalls
  /\ Execute(s, c, outcome)

NextTwo ==
  \/ \E s \in AllSessions : New(s)
  \/ \E s \in AllSessions : \E c \in Commands : \E outcome \in Outcomes(c.request_type) :
       ExecuteOfTwo(s, c, outcome)
  \/ \E s \in AllSessions : \E remove_set \in RemoveSets : Summary(s, remove_set)
  \/ \E s \in AllSessions :
       \E outcomes \in ReplayOutcomes(final_yaml_file[ScenarioName[s]].steps) :
         Rerun(s, outcomes)

SpecTwo == Init /\ [][NextTwo]_vars

(***************************************************************************)
(* Replay of scenario files as a caller may have written or edited them:   *)
(* steps with max_retries and a condition (expect.cel), which summary      *)
(* never writes.  InitRerun draws the scenario file, Rerun replays it.     *)
(***************************************************************************)
PollBudget == 2

\* "body.clusterId == 'c-123'" and "body.state == ACTIVE"
CelClusterId ==
  <<"body", ".", "clusterId", " ", "==", " ", "'", "c-123", "'">>

CelState == <<"body", ".", "state", " ", "==", " ", "ACTIVE">>

ScenarioStep(k, c, max_retries, cel) ==
  [name |-> StepName(k, c.operation_id),
   operation_id |-> c.operation_id,
   request_type |-> c.request_type,
   request |-> redact_sensitive_values(c.request),
   expect |-> IF cel = <<>> THEN [status_code |-> JInt(200)]
              ELSE [status_code |-> JInt(200), cel |-> cel],
   save |-> c.save_config,
   max_retries |-> max_retries,
   delay_after |-> 0]

\* The steps a scenario file may hold at position k: plain, polled on a
\* condition, with a retry budget but no condition.
ScenarioSteps(k) ==
  {ScenarioStep(k, c, 0, <<>>) : c \in Commands}
  \cup {ScenarioStep(k, c, PollBudget, cel) :
          c \in {c \in Commands : c.operation_id # <<"Clusters", "ListItems">>},
          cel \in {CelClusterId, CelState}}
  \cup {ScenarioStep(k, c, PollBudget, <<>>) : c \in {c \in Commands : c.request_type = "http"}}

Scenarios ==
  {<<a>> : a \in ScenarioSteps(1)}
  \cup {<<a, b>> : a \in ScenarioSteps(1),
                   b \in {b \in ScenarioSteps(2) : b.request_type = "http" /\ b.max_retries = 0}}

InitRerun ==
  /\ mem = [s \in AllSessions |-> IF s \in Sessions THEN NewSession ELSE NoSession]
  /\ session_file = [s \in AllSessions |->
                       IF s \in Sessions THEN SessionFileOf(NewSession) ELSE NoFile]
  /\ draft_yaml_file = [n \in ScenarioNames |-> NoFile]
  /\ \E steps \in Scenarios :
       final_yaml_file = [n \in ScenarioNames |-> FinalFileOf("", steps)]
  /\ ret = [op |-> "none"]
  /\ ncalls = [s \in AllSessions |-> 0]
  /\ responses = [s \in AllSessions |-> <<>>]
  /\ compiled = [n \in ScenarioNames |-> [session |-> "", sources |-> <<>>, by |-> {}]]

NextRerun ==
  \E s \in Sessions :
    \E outcomes \in ReplayOutcomes(final_yaml_file[ScenarioName[s]].steps) :
      Rerun(s, outcomes)

SpecRerun == InitRerun /\ [][NextRerun]_vars

(***************************************************************************)
(* The poller on its own: poll_until_ready on a request, a condition, a    *)
(* retry budget up to PollBudget and what the network does at each call.   *)
(***************************************************************************)
BodyActive == JDict([state |-> JStr(<<"ACTIVE">>)])
BodyCreating == JDict([state |-> JStr(<<"CREATING">>)])

PollOutcomes ==
  HttpOutcomes
  \cup {Outcome("ok", BodyActive), Outcome("ok", BodyCreating), Outcome("fail", BodyActive)}

PollCels == {<<>>, CelClusterId, CelState}

PollArgs ==
  {[op |-> "poll_arg", request |-> ReqGet, expect_cel |-> cel,
    max_retries |-> n, outcomes |-> o] :
     cel \in PollCels,
     n \in 0..PollBudget,
     o \in UNION {[1..m -> PollOutcomes] : m \in 0..PollBudget}}

InitPoll ==
  /\ mem = [s \in AllSessions |-> NoSession]
  /\ session_file = [s \in AllSessions |-> NoFile]
  /\ draft_yaml_file = [n \in ScenarioNames |-> NoFile]
  /\ final_yaml_file = [n \in ScenarioNames |-> NoFinal]
  /\ ncalls = [s \in AllSessions |-> 0]
  /\ responses = [s \in AllSessions |-> <<>>]
  /\ compiled = [n \in ScenarioNames |-> [session |-> "", sources |-> <<>>, by |-> {}]]
  /\ ret \in {a \in PollArgs : Len(a.outcomes) = a.max_retries}

PollEffect(p) ==
  /\ ret' = [op |-> "poll", request |-> ret.request, expect_cel |-> ret.expect_cel,
             max_retries |-> ret.max_retries, outcomes |-> ret.outcomes,
             result |-> p.result, calls |-> p.calls]
  /\ UNCHANGED <<mem, session_file, draft_yaml_file, final_yaml_file, ncalls, responses, compiled>>

Poll ==
  /\ ret.op = "poll_arg"
  /\ PollEffect(poll_until_ready(ret.request, ret.expect_cel, ret.max_retries, ret.outcomes))

NextPoll == Poll

SpecPoll == InitPoll /\ [][NextPoll]_vars

(***************************************************************************)
(* The functions of the session manager on their own.  The other variables *)
(* stay as they are before any session exists; ret holds the arguments of  *)
(* a call, then its result.                                                *)
(***************************************************************************)
NoProcess ==
  /\ mem = [s \in AllSessions |-> NoSession]
  /\ session_file = [s \in AllSessions |-> NoFile]
  /\ draft_yaml_file = [n \in ScenarioNames |-> NoFile]
  /\ final_yaml_file = [n \in ScenarioNames |-> NoFinal]
  /\ ncalls = [s \in AllSessions |-> 0]
  /\ responses = [s \in AllSessions |-> <<>>]
  /\ compiled = [n \in ScenarioNames |-> [session |-> "", sources |-> <<>>, by |-> {}]]

(***************************************************************************)
(* The redaction filter: the structures handed to it one after the other   *)
(* during a process (save redacts the variables and every attempt, summary *)
(* every request).  ret also keeps the previous call.                      *)
(***************************************************************************)
SensitiveValues ==
  {JStr(<<"pw1">>), JStr(<<>>), JNull,
   JStr(<<"{", "root_password", "}">>), JStr(<<"{", "x", "}">>),
   JDict([name |-> JStr(<<"pw1">>)]), JList(<<JStr(<<"pw1">>)>>)}

SecretDicts ==
  {JDict([rootPassword |-> v]) : v \in SensitiveValues}
  \cup {JDict([rootPassword |-> JStr(<<"s3cr3t">>), token |-> JStr(<<"pw1">>)]),
        JDict([rootPassword |-> JStr(<<"s3cr3t">>), name |-> JStr(<<"us">>)])}

PlainValues ==
  {JNull, JInt(1), JStr(<<"us">>), EmptyDict, JList(<<>>),
   JDict([name |-> JStr(<<"us">>)]),
   JDict([name |-> JList(<<JStr(<<"us">>), JInt(1)>>)])}

RedactInputs ==
  PlainValues
  \cup SecretDicts
  \cup {JDict([body |-> d]) : d \in SecretDicts}
  \cup {JList(<<d, JStr(<<"us">>)>>) : d \in SecretDicts}
  \cup {JDict([name |-> JDict([region |-> JStr(<<"us">>)]), body |-> JList(<<d>>)]) :
          d \in SecretDicts}

InitRedact ==
  /\ NoProcess
  /\ ret \in {[op |-> "redact_arg", obj |-> x, before |-> <<>>] : x \in RedactInputs}

Redact ==
  /\ ret.op = "redact_arg"
  /\ ret' = [op |-> "redact", obj |-> ret.obj,
             out |-> redact_sensitive_values(ret.obj),
             before |-> ret.before]
  /\ UNCHANGED <<mem, session_file, draft_yaml_file, final_yaml_file, ncalls, responses, compiled>>

RedactArg(x) ==
  /\ ret.op = "redact"
  /\ ret' = [op |-> "redact_arg", obj |-> x,
             before |-> <<[obj |-> ret.obj, out |-> ret.out]>>]
  /\ UNCHANGED <<mem, session_file, draft_yaml_file, final_yaml_file, ncalls, responses, compiled>>

NextRedact ==
  \/ Redact
  \/ \E x \in RedactInputs : RedactArg(x)

SpecRedact == InitRedact /\ [][NextRedact]_vars

(***************************************************************************)
(* The path language: extract_value on a structure and an eval path.       *)
(* LeafPaths(val) is the set of the paths made of bare keys and key[idx]   *)
(* segments that lead from val to a scalar, each with that scalar.         *)
(***************************************************************************)
IndexLiteral == <<"0", "1">>

RECURSIVE LeafPaths(_)
RECURSIVE KeyPaths(_, _)
RECURSIVE PathsFrom(_, _)
LeafPaths(val) ==
  IF val.k = "dict"
  THEN UNION {KeyPaths(key, val.v[key]) : key \in DOMAIN val.v}
  ELSE {}

KeyPaths(key, val) ==
  IF val.k = "list"
  THEN UNION {PathsFrom(<<key, "[", IndexLiteral[i], "]">>, val.v[i]) : i \in DOMAIN val.v}
  ELSE PathsFrom(<<key>>, val)

PathsFrom(prefix, val) ==
  IF val.k = "dict"
  THEN {[path |-> prefix \o <<".">> \o lp.path, leaf |-> lp.leaf] : lp \in LeafPaths(val)}
  ELSE IF val.k = "list" THEN {}
  ELSE {[path |-> prefix, leaf |-> val]}

ExtractStructures ==
  {JDict([clusterId |-> JStr(<<"c-123">>),
          count |-> JInt(1),
          items |-> JList(<<JDict([id |-> JStr(<<"a">>)]),
                            JDict([id |-> JStr(<<"b">>),
                                   tags |-> JList(<<JStr(<<"x">>)>>)])>>)]),
   JDict([body |-> JDict([id |-> JStr(<<"a">>)]), id |-> JStr(<<"b">>)]),
   JDict([status |-> JDict([state |-> JStr(<<"ACTIVE">>), detail |-> JNull])]),
   JList(<<JStr(<<"a">>)>>),
   EmptyDict}

\* Paths that lead nowhere or are not well formed: too long by a segment,
\* an index past the end, a negative index, an index that is no integer,
\* "[" without "]", the empty path.
OtherPaths ==
  {<<>>,
   <<"clusterId", ".", "x">>,
   <<"items", "[", "1", "]", ".", "tags", "[", "1", "]">>,
   <<"items", "[", "-1", "]", ".", "id">>,
   <<"items", "[", "-5", "]">>,
   <<"items", "[", "x", "]">>,
   <<"items", "[", "0">>,
   <<"[", "0", "]">>,
   <<"body">>,
   <<"missing">>}

ExtractPaths ==
  OtherPaths
  \cup UNION {{lp.path, <<"body", ".">> \o lp.path} :
                lp \in UNION {LeafPaths(e) : e \in ExtractStructures}}

InitExtract ==
  /\ NoProcess
  /\ ret \in {[op |-> "extract_arg", response |-> e, eval_path |-> p] :
                e \in ExtractStructures, p \in ExtractPaths}

ExtractEffect(r) ==
  /\ ret' = [op |-> "extract", response |-> ret.response, eval_path |-> ret.eval_path,
             raised |-> r.raised, value |-> r.value]
  /\ UNCHANGED <<mem, session_file, draft_yaml_file, final_yaml_file, ncalls, responses, compiled>>

Extract ==
  /\ ret.op = "extract_arg"
  /\ ExtractEffect(extract_value(ret.response, ret.eval_path))

NextExtract == Extract

SpecExtract == InitExtract /\ [][NextExtract]_vars

(***************************************************************************)
(* The condition evaluator on its own: _evaluate_expect on a body and an   *)
(* expression.  The expressions compare each leaf of the structures with   *)
(* its string form (bare or quoted) and with another literal; others have  *)
(* no "==", several of them, or a left-hand side that is not "body.".      *)
(***************************************************************************)
BodyEq == JDict([a |-> JStr(<<"x", " ", "==", " ", "y">>)])

ExpectBodies == ExtractStructures \cup {BodyEq}

CelOf(path, literal) == <<"body", ".">> \o path \o <<" ", "==", " ">> \o literal

LiteralsOf(leaf) ==
  {PyStr(leaf), <<"'">> \o PyStr(leaf) \o <<"'">>, <<"\"">> \o PyStr(leaf) \o <<"\"">>,
   <<"zzz">>}

OtherExprs ==
  {<<>>,
   <<" ">>,
   <<"==">>,
   <<"body", ".", "clusterId">>,
   <<"body", ".", "a", " ", "==", " ", "x", " ", "==", " ", "y">>,
   <<"body", ".", "clusterId", " ", "==", " ", "c-123", " ", "==", " ", "c-123">>,
   <<"clusterId", " ", "==", " ", "c-123">>,
   <<"response", ".", "clusterId", " ", "==", " ", "c-123">>,
   <<"body", " ", "==", " ", "x">>,
   <<" ", "body", ".", "clusterId", "==", "c-123", " ">>,
   <<"body", ".", "missing", " ", "==", " ", "None">>}

ExpectExprs ==
  OtherExprs
  \cup UNION {{CelOf(lp.path, l) : l \in LiteralsOf(lp.leaf)} :
                lp \in UNION {LeafPaths(e) : e \in ExpectBodies}}

InitExpect ==
  /\ mem = [s \in AllSessions |-> NoSession]
  /\ session_file = [s \in AllSessions |-> NoFile]
  /\ draft_yaml_file = [n \in ScenarioNames |-> NoFile]
  /\ final_yaml_file = [n \in ScenarioNames |-> NoFinal]
  /\ ncalls = [s \in AllSessions |-> 0]
  /\ responses = [s \in AllSessions |-> <<>>]
  /\ compiled = [n \in ScenarioNames |-> [session |-> "", sources |-> <<>>, by |-> {}]]
  /\ ret \in {[op |-> "expect_arg", body |-> b, expect |-> e] :
                b \in ExpectBodies, e \in ExpectExprs}

ExpectEffect(result) ==
  /\ ret' = [op |-> "expect", body |-> ret.body, expect |-> ret.expect, result |-> result]
  /\ UNCHANGED <<mem, session_file, draft_yaml_file, final_yaml_file, ncalls, responses, compiled>>

Expect ==
  /\ ret.op = "expect_arg"
  /\ ExpectEffect(_evaluate_expect(ret.body, ret.expect))

NextExpect == Expect

SpecExpect == InitExpect /\ [][NextExpect]_vars

(***************************************************************************)
(* Substitution: substitute_variables on a request and a store.  The       *)
(* strings of the requests are all the sequences of up to MaxRequestLen    *)
(* lexemes over braces and two names, and some longer ones.                *)
(***************************************************************************)
MaxRequestLen == 4

RequestLexemes == {"{", "}", "a", "b"}

RequestStrings ==
  UNION {[1..n -> RequestLexemes] : n \in 0..MaxRequestLen}

\* Strings with two tokens, next to each other or apart.
TwoTokenStrings ==
  {<<"{", x, "}">> \o mid \o <<"{", y, "}">> :
     x \in {"a", "b"}, y \in {"a", "b"}, mid \in {<<>>, <<"/">>, <<"}">>}}

SubstituteRequests ==
  {JStr(str) : str \in RequestStrings \cup TwoTokenStrings}
  \cup {JDict([path |-> JStr(<<"/", "{", "a", "}">>),
               body |-> JList(<<JStr(str), JInt(1)>>)]) :
          str \in {str \in RequestStrings : Len(str) = 3}}

\* The values of a store: plain, empty, holding braces, placeholder-shaped
\* (what load reads back from a redacted file), a number, a mapping.
StoredValues ==
  {JStr(<<"x">>), JStr(<<>>), JStr(<<"}">>), JStr(<<"{", "b">>),
   JStr(<<"{", "a", "}">>), JStr(<<"{", "b", "}">>),
   JInt(1), JDict([b |-> JInt(1)])}

SubstituteStores ==
  {[n \in {"a"} |-> v] : v \in StoredValues}
  \cup {[n \in {"a", "b"} |-> IF n = "a" THEN va ELSE vb] :
          va \in StoredValues, vb \in {JStr(<<"x">>), JStr(<<"{", "a", "}">>), JStr(<<"a">>)}}

InitSubstitute ==
  /\ NoProcess
  /\ ret \in {[op |-> "substitute_arg", request |-> r, variables |-> v] :
                r \in SubstituteRequests, v \in SubstituteStores}

Substitute ==
  /\ ret.op = "substitute_arg"
  /\ ret' = [op |-> "substitute", request |-> ret.request, variables |-> ret.variables,
             required |-> find_required_variables(ret.request),
             result |-> substitute_variables(ret.request, ret.variables)]
  /\ UNCHANGED <<mem, session_file, draft_yaml_file, final_yaml_file, ncalls, responses, compiled>>

NextSubstitute == Substitute

SpecSubstitute == InitSubstitute /\ [][NextSubstitute]_vars

(***************************************************************************)
(* The command line: main(argv).  Every command is a process of its own:   *)
(* it finds the session by its file, works on the object load builds,      *)
(* prints one JSON object and exits; mem plays no part.                    *)
(* argv is a record: len is len(argv), and the fields are the entries      *)
(* argv[0], argv[1], ... (an entry at or past len is not there).  A JSON    *)
(* argument is [valid, value]: whether json.loads accepts the text, and    *)
(* the value it returns.  ret holds argv, the printed object and the exit  *)
(* code.  MaxMainCalls bounds the execute commands that reach a session.   *)
(***************************************************************************)
MaxMainCalls == 1

JsonArg(value) == [valid |-> TRUE, value |-> value]
NotJson == [valid |-> FALSE, value |-> JNull]

Argv(len, command, session_id, c, request, save, remove) ==
  [len |-> len, command |-> command, session_id |-> session_id,
   operation_id |-> c.operation_id, request |-> request, save |-> save,
   request_type |-> c.request_type, remove |-> remove]

NoCommand == Command(<<>>, "http", JNull, NoSave)

NoRemove == [valid |-> TRUE, indices |-> {}]

\* Every command in full; one of them with fewer entries, with arguments
\* that are not JSON, and with the id of a session nobody created.
GetToken == Command(<<"Clusters", "GetCluster">>, "http", ReqGet, SaveToken)

ExecuteArgvs ==
  {Argv(6, "execute", "s1", c, JsonArg(c.request), JsonArg(c.save_config), NoRemove) :
     c \in Commands}
  \cup {Argv(len, "execute", "s1", GetToken, JsonArg(ReqGet), JsonArg(SaveToken), NoRemove) :
          len \in 1..5}
  \cup {Argv(6, "execute", "s1", GetToken, NotJson, JsonArg(SaveToken), NoRemove)}
  \cup {Argv(len, "execute", "s1", GetToken, JsonArg(ReqGet), NotJson, NoRemove) :
          len \in 5..6}
  \cup {Argv(6, "execute", "s2", GetToken, JsonArg(ReqGet), JsonArg(SaveToken), NoRemove)}

\* "--remove <index>" pairs: the indices, or an index int() does not read.
SummaryArgvs ==
  {Argv(len, "summary", s, NoCommand, NotJson, NotJson, [valid |-> TRUE, indices |-> r]) :
     len \in 1..2, s \in AllSessions, r \in {{}}}
  \cup {Argv(4, "summary", s, NoCommand, NotJson, NotJson, [valid |-> TRUE, indices |-> r]) :
          s \in AllSessions, r \in RemoveSets \ {{}}}
  \cup {Argv(4, "summary", s, NoCommand, NotJson, NotJson, [valid |-> FALSE, indices |-> {}]) :
          s \in AllSessions}

SessionArgvs(command) ==
  {Argv(len, command, s, NoCommand, NotJson, NotJson, NoRemove) :
     len \in 1..2, s \in AllSessions}

NewArgvs ==
  {Argv(len, "new", "", NoCommand, NotJson, NotJson, NoRemove) : len \in 1..3}

OtherArgvs ==
  {Argv(0, "", "", NoCommand, NotJson, NotJson, NoRemove),
   Argv(2, "list", "s1", NoCommand, NotJson, NotJson, NoRemove)}

\* The objects main prints.
Failure(error) == [success |-> FALSE, error |-> error]

PrintedNew(s, session) ==
  [success |-> TRUE, session_id |-> s, variables |-> session.variables]

PrintedAttempt(attempt, session) ==
  [success |-> attempt.success,
   attempt_index |-> attempt.index,
   operation_id |-> attempt.operation_id,
   status_code |-> attempt.response.status_code,
   body |-> attempt.response.body,
   error |-> attempt.error,
   saved_variables |-> attempt.saved_variables,
   all_variables |-> session.variables]

\* status(): the dict it returns.
status(s, session, final_exists) ==
  [session_id |-> s,
   scenario |-> ScenarioName[s],
   variables |-> redact_sensitive_values(JDict(session.variables)).v,
   attempts |-> [total |-> Len(session.attempts),
                 success |-> Cardinality({i \in DOMAIN session.attempts :
                                            session.attempts[i].success}),
                 failure |-> Cardinality({i \in DOMAIN session.attempts :
                                            ~session.attempts[i].success})],
   final_yaml |-> final_exists]

PrintedSummary(r) ==
  [total_attempts |-> r.total_attempts,
   success_attempts |-> r.success_attempts,
   removed_attempts |-> r.removed_attempts,
   final_steps |-> Len(r.final_steps),
   saved_variables |-> r.saved_variables,
   validation_errors |-> r.validation_errors]

PrintedRerun(r) ==
  IF r.raised THEN Failure("exception")
  ELSE IF ~r.has_scenario THEN Failure(r.error)
  ELSE [success |-> r.success, steps |-> r.steps, variables |-> r.variables]

\* The variant of the argument check used to test the handling of malformed
\* input: a save argument that is not JSON is taken for no save_config.
ExecuteArgvErrorLenient(argv) ==
  IF argv.len < 4 THEN "Usage: execute"
  ELSE IF ~argv.request.valid THEN "Invalid JSON"
  ELSE ""

\* main, command "execute", before find_session: the usage check and the
\* two json.loads; "" when they pass.
ExecuteArgvError(argv) ==
  IF argv.len < 4 THEN "Usage: execute"
  ELSE IF ~argv.request.valid THEN "Invalid JSON"
  ELSE IF argv.len > 4 /\ ~argv.save.valid THEN "Invalid JSON"
  ELSE ""

ArgvSaveConfig(argv) ==
  IF argv.len > 4 /\ argv.save.valid THEN argv.save.value ELSE NoSave

ArgvRequestType(argv) == IF argv.len > 5 THEN argv.request_type ELSE "http"

MainRet(argv, printed, exit_code) ==
  [op |-> "main", argv |-> argv, printed |-> printed, exit_code |-> exit_code]

\* A command that prints its result and changes nothing.
Reported(argv, printed, exit_code) ==
  /\ ret' = MainRet(argv, printed, exit_code)
  /\ UNCHANGED <<mem, session_file, draft_yaml_file, final_yaml_file, ncalls, responses, compiled>>

InitMain ==
  /\ NoProcess
  /\ ret = [op |-> "none"]

MainNew(argv, s) ==
  IF argv.len < 3 THEN Reported(argv, Failure("Usage: new"), 1)
  ELSE /\ ~session_file[s].exists
       /\ session_file' = [session_file EXCEPT ![s] = SessionFileOf(NewSession)]
       /\ ret' = MainRet(argv, PrintedNew(s, NewSession), 0)
       /\ UNCHANGED <<mem, draft_yaml_file, final_yaml_file, ncalls, responses, compiled>>

\* session.execute was called and e is what it did; an exception is caught
\* by main's "except Exception".
MainExecuted(argv, s, e) ==
  /\ ncalls' = [ncalls EXCEPT ![s] = @ + 1]
  /\ IF e.raised
     THEN /\ ret' = MainRet(argv, Failure("exception"), 1)
          /\ UNCHANGED <<session_file, draft_yaml_file, responses>>
     ELSE /\ ret' = MainRet(argv, PrintedAttempt(e.attempt, e.session),
                            IF e.attempt.success THEN 0 ELSE 1)
          /\ draft_yaml_file' =
               [draft_yaml_file EXCEPT ![ScenarioName[s]] = DraftFileOf(e.session)]
          /\ session_file' = [session_file EXCEPT ![s] = SessionFileOf(e.session)]
          /\ responses' = [responses EXCEPT ![s] = Append(@, e.result)]
  /\ UNCHANGED <<mem, final_yaml_file, compiled>>

MainExecuteChecked(argv, outcome, error) ==
  IF error # "" THEN Reported(argv, Failure(error), 1)
  ELSE IF ~session_file[argv.session_id].exists
  THEN Reported(argv, Failure("Session not found"), 1)
  ELSE /\ ncalls[argv.session_id] < MaxMainCalls
       /\ MainExecuted(argv, argv.session_id,
                       execute(load(session_file[argv.session_id]),
                               argv.operation_id, argv.request.value,
                               ArgvSaveConfig(argv), ArgvRequestType(argv), outcome))

MainExecute(argv, outcome) == MainExecuteChecked(argv, outcome, ExecuteArgvError(argv))

MainStatus(argv) ==
  IF argv.len < 2 THEN Reported(argv, Failure("Usage: status"), 1)
  ELSE IF ~session_file[argv.session_id].exists
  THEN Reported(argv, Failure("Session not found"), 1)
  ELSE Reported(argv,
                status(argv.session_id, load(session_file[argv.session_id]),
                       final_yaml_file[ScenarioName[argv.session_id]].exists),
                0)

MainSummarized(argv, s, r) ==
  /\ final_yaml_file' =
       [final_yaml_file EXCEPT ![ScenarioName[s]] = FinalFileOf(s, r.final_steps)]
  /\ compiled' = [compiled EXCEPT ![ScenarioName[s]] =
                    [session |-> s, sources |-> r.sources,
                     by |-> compiled[ScenarioName[s]].by \cup {s}]]
  /\ ret' = MainRet(argv, PrintedSummary(r), 0)
  /\ UNCHANGED <<mem, session_file, draft_yaml_file, ncalls, responses>>

MainSummary(argv) ==
  IF argv.len < 2 THEN Reported(argv, Failure("Usage: summary"), 1)
  ELSE IF ~argv.remove.valid THEN Reported(argv, Failure("exception"), 1)
  ELSE IF ~session_file[argv.session_id].exists
  THEN Reported(argv, Failure("Session not found"), 1)
  ELSE MainSummarized(argv, argv.session_id,
                      summary(load(session_file[argv.session_id]), argv.remove.indices))

MainRerun(argv, outcomes) ==
  IF argv.len < 2 THEN Reported(argv, Failure("Usage: rerun"), 1)
  ELSE IF ~session_file[argv.session_id].exists
  THEN Reported(argv, Failure("Session not found"), 1)
  ELSE Reported(argv,
                PrintedRerun(rerun(final_yaml_file[ScenarioName[argv.session_id]], outcomes)),
                IF PrintedRerun(rerun(final_yaml_file[ScenarioName[argv.session_id]],
                                      outcomes)).success THEN 0 ELSE 1)

\* No argument at all, or a command main does not know.
MainOther(argv) ==
  IF argv.len < 1 THEN Reported(argv, Failure("Usage: session <command>"), 1)
  ELSE Reported(argv, Failure("Unknown command"), 1)

MainSessions == {"s1"}

NextMain ==
  \/ \E argv \in NewArgvs : \E s \in MainSessions : MainNew(argv, s)
  \/ \E argv \in ExecuteArgvs : \E outcome \in Outcomes(ArgvRequestType(argv)) :
       MainExecute(argv, outcome)
  \/ \E argv \in SessionArgvs("status") : MainStatus(argv)
  \/ \E argv \in SummaryArgvs : MainSummary(argv)
  \/ \E argv \in SessionArgvs("rerun") :
       \E outcomes \in ReplayOutcomes(final_yaml_file[ScenarioName[argv.session_id]].steps) :
         MainRerun(argv, outcomes)
  \/ \E argv \in OtherArgvs : MainOther(argv)

SpecMain == InitMain /\ [][NextMain]_vars

(***************************************************************************)
(* Properties.  What they read besides the state: the lexemes of the       *)
(* strings of a value, the secrets of the inputs, the retained attempts of *)
(* a log as the specification defines them, and what each recorded attempt *)
(* extracted from the response the executor gave it.                       *)
(***************************************************************************)
RECURSIVE Lexemes(_)
Lexemes(val) ==
  IF val.k = "str" THEN SeqToSet(val.v)
  ELSE IF val.k = "dict" THEN UNION {Lexemes(val.v[key]) : key \in DOMAIN val.v}
  ELSE IF val.k = "list" THEN UNION {Lexemes(val.v[i]) : i \in DOMAIN val.v}
  ELSE {}

\* The lexemes of the values held under a sensitive key, a value that is a
\* placeholder already excepted.
RECURSIVE SecretsOf(_)
SecretsOf(val) ==
  IF val.k = "dict"
  THEN UNION {IF IsSensitiveKey(key)
              THEN IF val.v[key].k = "str" /\ IsPlaceholderValue(val.v[key].v)
                   THEN {} ELSE Lexemes(val.v[key])
              ELSE SecretsOf(val.v[key]) : key \in DOMAIN val.v}
  ELSE IF val.k = "list" THEN UNION {SecretsOf(val.v[i]) : i \in DOMAIN val.v}
  ELSE {}

\* The secrets of the inputs: request fields under a sensitive key, and the
\* values a save configuration stores under a sensitive name or holding a
\* sensitive key.
Secrets ==
  UNION {SecretsOf(c.request) : c \in Commands}
  \cup UNION {SecretsOf(JDict(extract_and_save(o.body, c.save_config, EmptyMap).saved)) :
                c \in Commands, o \in HttpOutcomes \cup CliOutcomes}

AttemptLexemes(a) ==
  Lexemes(a.request) \cup Lexemes(a.resolved_request)
  \cup Lexemes(a.response.body) \cup Lexemes(a.saved_variables)

LogLexemes(file) ==
  Lexemes(JDict(file.variables))
  \cup UNION {AttemptLexemes(file.attempts[i]) : i \in DOMAIN file.attempts}

ScenarioLexemes(file) ==
  UNION {Lexemes(file.steps[k].request) : k \in DOMAIN file.steps}

IsRetained(a, remove_set) == a.success /\ a.index \notin remove_set

\* The attempts of a log the compiled scenario is to hold, in log order.
RetainedSeq(attempts, remove_set) ==
  SelectSeq(attempts, LAMBDA a : IsRetained(a, remove_set))

\* The positions in the log of the retained attempts, in increasing order.
RECURSIVE RetainedPositions(_, _, _)
RetainedPositions(attempts, remove_set, i) ==
  IF i > Len(attempts) THEN <<>>
  ELSE (IF IsRetained(attempts[i], remove_set) THEN <<i>> ELSE <<>>)
       \o RetainedPositions(attempts, remove_set, i + 1)

Override(f, g) ==
  [x \in DOMAIN f \cup DOMAIN g |-> IF x \in DOMAIN g THEN g[x] ELSE f[x]]

\* What the i-th recorded attempt of session s extracted from its response.
SavedBy(s, i) ==
  IF responses[s][i].success
  THEN extract_and_save(responses[s][i].body, mem[s].attempts[i].save_config, EmptyMap).saved
  ELSE EmptyMap

\* The value last extracted for each name by the first n recorded attempts.
RECURSIVE LatestSaved(_, _)
LatestSaved(s, n) ==
  IF n = 0 THEN EmptyMap ELSE Override(LatestSaved(s, n - 1), SavedBy(s, n))

SaveKeys(save) ==
  IF save.none THEN {} ELSE {save.placeholder[j].key : j \in DOMAIN save.placeholder}

TheScenario == final_yaml_file[ScenarioName[ret.sid]]

TheAttempts == mem[ret.sid].attempts

TheReplay == ret.rerun_session.attempts

\* C1: after N calls to execute on a session, whatever their outcomes and
\* with or without a save or load in between, the attempt log has exactly N
\* entries and the entry at position i (from 0) has index i.
C1_AttemptCount ==
  \A s \in Sessions :
    mem[s].live =>
      /\ Len(mem[s].attempts) = ncalls[s]
      /\ \A i \in DOMAIN mem[s].attempts : mem[s].attempts[i].index = i - 1

\* C2: for every failing outcome of the underlying call (non-2xx status,
\* non-zero exit code, network error, timeout, failure to launch the
\* subprocess) execute does not raise: it appends exactly one attempt with
\* success = false and a non-empty error and persists it like any other.
C2_FailureCaptured ==
  (ret.op = "execute" /\ ret.outcome.kind \in {"fail", "exception", "oserror"}) =>
    /\ ~ret.raised
    /\ Len(TheAttempts) = ret.attempts_before + 1
    /\ TheAttempts[Len(TheAttempts)] = ret.attempt
    /\ ret.attempt.success = FALSE
    /\ ret.attempt.error.k = "str" /\ ret.attempt.error.v # <<>>
    /\ session_file[ret.sid] = SessionFileOf(mem[ret.sid])
    /\ draft_yaml_file[ScenarioName[ret.sid]] = DraftFileOf(mem[ret.sid])

\* C3: every name in the variable store is a preset or was written by the
\* extraction of a successful attempt recorded in the log, and a name that
\* is in the store is still there after every operation.
C3_StoreNames ==
  /\ \A s \in Sessions :
       mem[s].live =>
         \A k \in DOMAIN mem[s].variables :
           \/ k \in DOMAIN Presets
           \/ \E i \in DOMAIN mem[s].attempts :
                /\ mem[s].attempts[i].success
                /\ k \in DOMAIN mem[s].attempts[i].saved_variables.v
  /\ (ret.op \in {"execute", "status", "summary", "rerun", "save", "load"}) =>
       DOMAIN ret.store_before \subseteq DOMAIN mem[ret.sid].variables

\* C4: the value v a successful execute extracted for a key k stays the
\* value of k in the store until a later extraction writes k again, and
\* every later execute replaces each {k} token of its request by the string
\* form of v.
C4_SavedValueUsed ==
  /\ \A s \in Sessions :
       mem[s].live =>
         \A k \in DOMAIN LatestSaved(s, Len(mem[s].attempts)) :
           /\ k \in DOMAIN mem[s].variables
           /\ mem[s].variables[k] = LatestSaved(s, Len(mem[s].attempts))[k]
  /\ (ret.op = "execute" /\ ~ret.raised) =>
       ret.attempt.resolved_request =
         ResolveRequest(ret.command.request,
                        Override(ret.store_before, LatestSaved(ret.sid, ret.attempts_before)))

\* C5: loading a session that was saved yields a store that maps every name
\* to the value it had in memory before the save.
C5_LoadKeepsValues ==
  (ret.op = "load" /\ ret.in_sync) => mem[ret.sid].variables = ret.store_before

\* C6: no written file (session file, draft log, final scenario) holds a raw
\* secret value at any position.
C6_NoSecretInFiles ==
  /\ \A s \in Sessions : LogLexemes(session_file[s]) \cap Secrets = {}
  /\ \A n \in ScenarioNames :
       /\ LogLexemes(draft_yaml_file[n]) \cap Secrets = {}
       /\ ScenarioLexemes(final_yaml_file[n]) \cap Secrets = {}

\* C7: when summary returns no validation diagnostic, every {name} token in
\* the written request of a step at position U names a preset or a variable
\* saved by a step at a position strictly less than U.
C7_NoDiagnosticMeansOrdered ==
  (ret.op = "summary" /\ ret.validation_errors = {}) =>
    \A U \in DOMAIN TheScenario.steps :
      \A n \in find_required_variables(TheScenario.steps[U].request) :
        \/ InStore(n, Presets)
        \/ \E S \in 1..(U - 1) : Len(n) = 1 /\ n[1] \in SaveKeys(TheScenario.steps[S].save)

\* The retained steps that save the variable named n.
Savers(R, n) ==
  {S \in DOMAIN R : Len(n) = 1 /\ n[1] \in DOMAIN R[S].saved_variables.v}

\* Retained step U requires the non-preset variable n, which retained step S
\* alone saves, and S is not before U.
SavedTooLate(R, U, n, S) ==
  /\ n \in find_required_variables(R[U].request)
  /\ ~InStore(n, Presets)
  /\ Savers(R, n) = {S}
  /\ S >= U

\* C8: when retained step U requires a non-preset variable saved only by
\* retained step S with S >= U, summary returns a "used before saved"
\* diagnostic naming the variable, U and S, and the final scenario it writes
\* still holds every retained step.
C8_UsedBeforeSavedReported ==
  ret.op = "summary" =>
    LET R == RetainedSeq(TheAttempts, ret.remove_set)
    IN \A U \in DOMAIN R : \A S \in DOMAIN R :
         \A n \in find_required_variables(R[U].request) :
           SavedTooLate(R, U, n, S) =>
             /\ [kind |-> "used before saved", var |-> n, use_steps |-> <<>>,
                 use_step |-> U, save_step |-> S] \in ret.validation_errors
             /\ TheScenario.exists
             /\ Len(TheScenario.steps) = Len(R)
             /\ \A k \in DOMAIN R : TheScenario.steps[k].operation_id = R[k].operation_id

\* C8, its case: summary ran on a log in which a retained step uses a
\* variable that only a later retained step saves.
C8_Witness ==
  /\ ret.op = "summary"
  /\ LET R == RetainedSeq(TheAttempts, ret.remove_set)
     IN \E U \in DOMAIN R : \E S \in DOMAIN R :
          /\ S > U
          /\ \E n \in find_required_variables(R[U].request) : SavedTooLate(R, U, n, S)

\* C9: the steps summary writes are exactly the successful attempts whose
\* index is not in the remove set, in increasing index order, the k-th of
\* them named step_k_<normalized operation id>: names are pairwise distinct
\* and their numbers have no gaps.
C9_StepsAreRetainedAttempts ==
  ret.op = "summary" =>
    LET R == RetainedSeq(TheAttempts, ret.remove_set)
        steps == TheScenario.steps
    IN /\ Len(steps) = Len(R)
       /\ ret.final_steps = Len(R)
       /\ compiled[ScenarioName[ret.sid]].sources = RetainedPositions(TheAttempts, ret.remove_set, 1)
       /\ \A k \in DOMAIN steps :
            /\ steps[k].operation_id = R[k].operation_id
            /\ steps[k].request_type = R[k].request_type
            /\ steps[k].name = [number |-> k, operation |-> _operation_to_name(R[k].operation_id)]
       /\ \A j, k \in DOMAIN steps : steps[j].name = steps[k].name => j = k

\* C9, its case: summary compiled a log of two attempts into one step, the
\* other attempt having failed or been removed, and the step comes from the
\* second attempt.
C9_Witness ==
  /\ ret.op = "summary"
  /\ Len(TheAttempts) = 2
  /\ Len(TheScenario.steps) = 1
  /\ compiled[ScenarioName[ret.sid]].sources = <<2>>

\* The scenario being replayed was compiled from the session's log, and the
\* executor answered each step as it answered the attempt the step was
\* compiled from.
SameResponses ==
  LET c == compiled[ScenarioName[ret.sid]]
  IN /\ ret.op = "rerun"
     /\ ret.has_scenario
     /\ c.session = ret.sid
     /\ Len(ret.responses) = Len(c.sources)
     /\ \A k \in DOMAIN c.sources : ret.responses[k] = responses[ret.sid][c.sources[k]]

\* C10: when a compiled session is replayed against an executor that gives
\* each step the response of the attempt it was compiled from, rerun returns
\* success = true, each step saves the names its attempt saved, in the same
\* order, and the replay's store holds the presets and those names only.
C10_ReplayEquivalence ==
  SameResponses =>
    LET c == compiled[ScenarioName[ret.sid]]
    IN /\ ~ret.raised
       /\ ret.success
       /\ Len(ret.steps) = Len(c.sources)
       /\ \A k \in DOMAIN c.sources :
            /\ ret.steps[k].success
            /\ ret.steps[k].saved = TheAttempts[c.sources[k]].saved_order
       /\ DOMAIN ret.variables =
            DOMAIN Presets \cup UNION {SeqToSet(ret.steps[k].saved) : k \in DOMAIN ret.steps}

\* C10, its case: a scenario of two steps, one of which saved a variable, was
\* replayed with the original responses.
C10_Witness ==
  /\ SameResponses
  /\ Len(ret.steps) = 2
  /\ \E k \in DOMAIN ret.steps : ret.steps[k].saved # <<>>

\* C11: rerun runs every step of the scenario in file order, also after a
\* step failed: it returns one result per step in that order, the replay
\* session's log gets one attempt per step (polled steps included), and the
\* success flag is true exactly when every step's attempt succeeded.
C11_RerunLedger ==
  (ret.op = "rerun" /\ ret.has_scenario) =>
    /\ ~ret.raised
    /\ Len(ret.steps) = Len(TheScenario.steps)
    /\ Len(TheReplay) = Len(TheScenario.steps)
    /\ \A k \in DOMAIN TheScenario.steps :
         /\ ret.steps[k].step = TheScenario.steps[k].name
         /\ TheReplay[k].index = k - 1
         /\ TheReplay[k].operation_id = TheScenario.steps[k].operation_id
         /\ ret.steps[k].success = TheReplay[k].success
    /\ ret.success = (\A k \in DOMAIN TheReplay : TheReplay[k].success)

\* C12: the redaction is idempotent, for every nested structure of mappings,
\* sequences and scalars (a sensitive key may hold a mapping, a sequence, an
\* empty string or a placeholder): redacting the result again changes nothing.
C12_RedactIdempotent ==
  ret.op = "redact" => redact_sensitive_values(ret.out) = ret.out

C12_Witness ==
  /\ ret.op = "redact"
  /\ ret.obj = JDict([rootPassword |-> JStr(<<>>)])
  /\ ret.out = JDict([rootPassword |-> JStr(<<"{", "root_password", "}">>)])

\* Whether a sensitive key occurs anywhere inside a value.
RECURSIVE HasSensitiveKey(_)
HasSensitiveKey(obj) ==
  IF obj.k = "dict"
  THEN \E key \in DOMAIN obj.v : IsSensitiveKey(key) \/ HasSensitiveKey(obj.v[key])
  ELSE IF obj.k = "list"
  THEN \E i \in DOMAIN obj.v : HasSensitiveKey(obj.v[i])
  ELSE FALSE

\* Every mapping of x reached through non-sensitive keys and sequences has
\* in y the same keys, and under each non-sensitive key the same value.
RECURSIVE NonSensitiveEqual(_, _)
NonSensitiveEqual(x, y) ==
  IF x.k = "dict"
  THEN /\ y.k = "dict"
       /\ DOMAIN y.v = DOMAIN x.v
       /\ \A key \in DOMAIN x.v :
            ~IsSensitiveKey(key) =>
              /\ y.v[key] = x.v[key]
              /\ NonSensitiveEqual(x.v[key], y.v[key])
  ELSE IF x.k = "list"
  THEN /\ y.k = "list"
       /\ DOMAIN y.v = DOMAIN x.v
       /\ \A i \in DOMAIN x.v : NonSensitiveEqual(x.v[i], y.v[i])
  ELSE y = x

\* The same, the value under a non-sensitive key being required equal only
\* when no sensitive key occurs inside it, and of the same shape otherwise.
RECURSIVE NonSensitiveKept(_, _)
NonSensitiveKept(x, y) ==
  IF x.k = "dict"
  THEN /\ y.k = "dict"
       /\ DOMAIN y.v = DOMAIN x.v
       /\ \A key \in DOMAIN x.v :
            ~IsSensitiveKey(key) =>
              /\ ~HasSensitiveKey(x.v[key]) => y.v[key] = x.v[key]
              /\ NonSensitiveKept(x.v[key], y.v[key])
  ELSE IF x.k = "list"
  THEN /\ y.k = "list"
       /\ DOMAIN y.v = DOMAIN x.v
       /\ \A i \in DOMAIN x.v : NonSensitiveKept(x.v[i], y.v[i])
  ELSE y = x

\* C13 (as stated): the redaction never changes a value whose key is not
\* sensitive: for every mapping of the input and every key of it that does
\* not match the sensitive pattern, the output holds the input's value.
C13_NonSensitiveUnchanged ==
  ret.op = "redact" => NonSensitiveEqual(ret.obj, ret.out)

\* C13 (amended): under a key that is not sensitive the redaction changes
\* nothing but the sensitive keys nested inside the value: the output has
\* the same keys and lengths, and holds the input's value wherever no
\* sensitive key occurs inside that value.
C13_NonSensitiveKept ==
  ret.op = "redact" => NonSensitiveKept(ret.obj, ret.out)

C13_Witness ==
  /\ ret.op = "redact"
  /\ ret.obj.k = "dict"
  /\ \E key \in DOMAIN ret.obj.v :
       /\ ~IsSensitiveKey(key)
       /\ ~HasSensitiveKey(ret.obj.v[key])
       /\ ret.obj.v[key].k = "dict"
       /\ ret.out.v[key] = ret.obj.v[key]
  /\ \E key \in DOMAIN ret.obj.v :
       /\ ~IsSensitiveKey(key)
       /\ HasSensitiveKey(ret.obj.v[key])
       /\ ret.out.v[key] # ret.obj.v[key]

\* The occurrences of sensitive keys in x, each with its value in x and the
\* value the redacted structure y holds in its place.
RECURSIVE Occurrences(_, _)
Occurrences(x, y) ==
  IF x.k # y.k THEN {}
  ELSE IF x.k = "dict"
  THEN UNION {IF IsSensitiveKey(key)
              THEN {[key |-> key, original |-> x.v[key], redacted |-> y.v[key]]}
              ELSE Occurrences(x.v[key], y.v[key]) : key \in DOMAIN x.v \cap DOMAIN y.v}
  ELSE IF x.k = "list"
  THEN UNION {Occurrences(x.v[i], y.v[i]) : i \in DOMAIN x.v \cap DOMAIN y.v}
  ELSE {}

\* The occurrences in this call of the filter and in the one before it.
BothCalls ==
  Occurrences(ret.obj, ret.out)
  \cup UNION {Occurrences(ret.before[i].obj, ret.before[i].out) : i \in DOMAIN ret.before}

AlreadyPlaceholder(val) == val.k = "str" /\ IsPlaceholderValue(val.v)

\* C14 (as stated): the redaction is determined by the key alone: any two
\* occurrences of the same sensitive key, in any two structures and with any
\* two original values, are redacted to the same placeholder token.
C14_SameKeySameToken ==
  ret.op = "redact" =>
    \A a \in BothCalls : \A b \in BothCalls :
      a.key = b.key => a.redacted = b.redacted

\* C14 (amended): any two occurrences of the same sensitive key whose
\* original values are not already placeholder-shaped strings are redacted
\* to the same token, the one derived from the key; an original value that
\* is a placeholder-shaped string is kept as it is.
C14_TokenFromKey ==
  ret.op = "redact" =>
    \A a \in BothCalls :
      /\ AlreadyPlaceholder(a.original) => a.redacted = a.original
      /\ ~AlreadyPlaceholder(a.original) =>
           /\ a.redacted = JStr(<<"{", _to_placeholder_name(a.key), "}">>)
           /\ \A b \in BothCalls :
                (b.key = a.key /\ ~AlreadyPlaceholder(b.original)) =>
                  b.redacted = a.redacted

C14_Witness ==
  /\ ret.op = "redact"
  /\ \E a \in Occurrences(ret.obj, ret.out) :
       \E b \in BothCalls \ Occurrences(ret.obj, ret.out) :
         /\ a.key = "rootPassword" /\ b.key = "rootPassword"
         /\ a.original # b.original
         /\ ~AlreadyPlaceholder(a.original) /\ ~AlreadyPlaceholder(b.original)
         /\ a.redacted = b.redacted

\* C15: extract_value never raises: for every path (too long by a segment,
\* an index out of range, a bracket segment whose index is no integer
\* literal, "[" without "]", the empty path) and every structure it returns
\* the addressed value or the not-found result.
C15_ExtractNeverRaises ==
  ret.op = "extract" => ~ret.raised

\* The scalars of the response that the path of this call addresses, the
\* path being read as it stands or after its "body." prefix.
Addressed ==
  {lp \in LeafPaths(ret.response) :
     ret.eval_path \in {lp.path, <<"body", ".">> \o lp.path}}

\* C16 (as stated): path round trip: for every structure and every path of
\* bare keys and key[idx] segments, with or without the "body." prefix, that
\* reaches a leaf of the structure, extract_value returns that leaf.
C16_PathRoundTrip ==
  ret.op = "extract" =>
    \A lp \in Addressed : ~ret.raised /\ ret.value = lp.leaf

\* C16 (amended): the same, for the paths with the "body." prefix and for
\* the paths without it whose first segment is not the bare key "body" (a
\* leading "body." is always taken for the prefix).
C16_PrefixedRoundTrip ==
  ret.op = "extract" =>
    \A lp \in Addressed :
      (ret.eval_path = <<"body", ".">> \o lp.path
         \/ ~(Len(lp.path) >= 2 /\ lp.path[1] = "body" /\ lp.path[2] = ".")) =>
        ~ret.raised /\ ret.value = lp.leaf

C16_Witness ==
  /\ ret.op = "extract"
  /\ ret.eval_path = <<"body", ".", "items", "[", "1", "]", ".", "tags", "[", "0", "]">>
  /\ ret.value = JStr(<<"x">>)

\* The strings inside a value.
RECURSIVE StringsOf(_)
StringsOf(val) ==
  IF val.k = "str" THEN {val.v}
  ELSE IF val.k = "dict" THEN UNION {StringsOf(val.v[key]) : key \in DOMAIN val.v}
  ELSE IF val.k = "list" THEN UNION {StringsOf(val.v[i]) : i \in DOMAIN val.v}
  ELSE {}

\* Whether the token {n} occurs in a string of val.
HasToken(val, n) ==
  \E str \in StringsOf(val) :
    \E i \in 1..Len(str) :
      i + 2 <= Len(str) /\ str[i] = "{" /\ str[i + 1] = n /\ str[i + 2] = "}"

\* Every {name} token of the request of this call has its name in the store.
AllNamesStored == \A name \in ret.required : InStore(name, ret.variables)

\* C17 (as stated): substitution closure: when every {name} token of the
\* request has its name in the store, the result of substitute_variables
\* holds no {n} token for any name n of the store, whatever the values.
C17_SubstitutionClosure ==
  (ret.op = "substitute" /\ AllNamesStored) =>
    \A n \in DOMAIN ret.variables : ~HasToken(ret.result, n)

\* C17 (amended): the same, provided the string form of no value that the
\* request names contains "{".
C17_ClosureOfBraceFreeValues ==
  (/\ ret.op = "substitute"
   /\ AllNamesStored
   /\ \A name \in ret.required :
        \A i \in DOMAIN PyStr(ret.variables[name[1]]) :
          PyStr(ret.variables[name[1]])[i] # "{") =>
    \A n \in DOMAIN ret.variables : ~HasToken(ret.result, n)

C17_Witness ==
  /\ ret.op = "substitute"
  /\ ret.request = JStr(<<"{", "a", "}", "}">>)
  /\ ret.variables = [n \in {"a", "b"} |-> IF n = "a" THEN JStr(<<"}">>) ELSE JStr(<<"{", "a", "}">>)]
  /\ ret.result = JStr(<<"}", "}">>)

\* C18: every caller-facing session operation (new, execute, status,
\* summary, rerun), on every path, its error paths included, prints a
\* structured result that holds a success flag.
C18_SuccessFlagPrinted ==
  ret.op = "main" => "success" \in DOMAIN ret.printed

\* The input of the command that ran last was malformed: too few positional
\* arguments, a request or save argument that is not JSON, or the id of a
\* session without a session file (in the state the command found).
TooFewArguments(argv) ==
  \/ argv.command = "new" /\ argv.len < 3
  \/ argv.command = "execute" /\ argv.len < 4
  \/ argv.command \in {"status", "summary", "rerun"} /\ argv.len < 2

NotJsonArgument(argv) ==
  /\ argv.command = "execute"
  /\ argv.len >= 4
  /\ ~argv.request.valid \/ (argv.len > 4 /\ ~argv.save.valid)

UnknownSession(argv) ==
  /\ argv.command \in {"execute", "status", "summary", "rerun"}
  /\ ~TooFewArguments(argv)
  /\ ~session_file[argv.session_id].exists

\* C19: a session command given malformed input returns a failure result
\* and has no side effect: no executor call, no attempt appended, no session
\* file, draft log or final scenario written or changed.
C19_MalformedInputNoEffect ==
  [][(/\ ret'.op = "main"
      /\ ret' # ret
      /\ \/ TooFewArguments(ret'.argv)
         \/ NotJsonArgument(ret'.argv)
         \/ UnknownSession(ret'.argv))
     => /\ "success" \in DOMAIN ret'.printed
        /\ ~ret'.printed.success
        /\ ret'.exit_code = 1
        /\ UNCHANGED <<mem, session_file, draft_yaml_file, final_yaml_file,
                       ncalls, responses, compiled>>]_vars

C19_Witness ==
  /\ ret.op = "main"
  /\ ret.argv.command = "execute"
  /\ ret.argv.len = 6
  /\ ret.argv.request.valid
  /\ ~ret.argv.save.valid
  /\ session_file[ret.argv.session_id].exists
  /\ Len(session_file[ret.argv.session_id].attempts) = 1
  /\ ~ret.printed.success

\* C20: rerun on a session for which no scenario has been compiled returns
\* a failure result with an error message, makes no executor call, creates
\* no replay session and writes no file.
C20_RerunNeedsScenario ==
  (ret.op = "rerun" /\ ret.sid \notin compiled[ScenarioName[ret.sid]].by) =>
    /\ ~ret.raised
    /\ ~ret.success
    /\ ret.error # ""
    /\ ret.calls = 0
    /\ ~ret.rerun_session.live
    /\ ~ret.rerun_session_file.exists
    /\ ~ret.rerun_draft_file.exists

\* The {name} tokens of the request of the last execute whose names the
\* store did not hold when the call was made.
MissingNames ==
  {name \in find_required_variables(ret.command.request) :
     ~InStore(name, ret.store_before)}

\* C21: when a request references a {name} that is not in the variable
\* store, execute still makes the call and records one attempt; the
\* resolved_request of that attempt holds the {name} token unchanged and
\* no token of the request whose name is in the store.
C21_MissingNameKept ==
  (ret.op = "execute" /\ MissingNames # {}) =>
    /\ ~ret.raised
    /\ Len(TheAttempts) = ret.attempts_before + 1
    /\ TheAttempts[Len(TheAttempts)] = ret.attempt
    /\ \A name \in MissingNames :
         HasToken(ret.attempt.resolved_request, name[1])
    /\ \A name \in find_required_variables(ret.command.request) :
         InStore(name, ret.store_before) =>
           ~HasToken(ret.attempt.resolved_request, name[1])

\* C22: an execute whose call did not succeed leaves the variable store as
\* it was before the call and records an attempt with empty
\* saved_variables, whatever the save_config and the body of the response.
C22_FailedCallSavesNothing ==
  (ret.op = "execute" /\ ret.outcome.kind # "ok") =>
    /\ mem[ret.sid].variables = ret.store_before
    /\ Len(TheAttempts) = ret.attempts_before + 1
    /\ TheAttempts[Len(TheAttempts)].success = FALSE
    /\ TheAttempts[Len(TheAttempts)].saved_variables = EmptyDict

\* C23: execute with a request_type other than "http" or "cli" calls no
\* executor (the attempt carries no status code, an empty body and the
\* error that names the type), records one attempt with success = false,
\* and leaves the variable store unchanged.
C23_UnknownTypeNotDispatched ==
  (ret.op = "execute" /\ ret.command.request_type \notin {"http", "cli"}) =>
    /\ ~ret.raised
    /\ Len(TheAttempts) = ret.attempts_before + 1
    /\ TheAttempts[Len(TheAttempts)] = ret.attempt
    /\ ret.attempt.success = FALSE
    /\ ret.attempt.error = JStr(<<"Unknown request_type: ", ret.command.request_type>>)
    /\ ret.attempt.response = [status_code |-> JNull, body |-> EmptyDict]
    /\ ret.attempt.saved_variables = EmptyDict
    /\ mem[ret.sid].variables = ret.store_before

C23_Witness ==
  /\ ret.op = "execute"
  /\ ret.command.request_type = "grpc"
  /\ ~ret.raised
  /\ ret.attempts_before = 1
  /\ "cluster_1" \in DOMAIN ret.store_before

\* Whether the eval path of a save entry resolves in the body of the last
\* execute's response, and the value it resolves to.
Resolved(entry) == extract_value(ret.result.body, entry.eval)
Resolves(entry) == ~Resolved(entry).raised /\ Resolved(entry).value # JNull

\* The save entries of the last execute's save_config.
SaveEntries == ret.command.save_config.placeholder

\* C24: for a successful execute, saved_variables holds exactly the save
\* entries whose eval path resolves in the response body, each with the
\* resolved value; an entry whose path does not resolve changes neither the
\* store nor the attempt's success; and right after the call the store
\* agrees with saved_variables on every key of saved_variables.
C24_SavedExactlyResolved ==
  (ret.op = "execute" /\ ret.outcome.kind = "ok") =>
    /\ ~ret.raised
    /\ ret.attempt.success
    /\ TheAttempts[Len(TheAttempts)] = ret.attempt
    /\ DOMAIN ret.attempt.saved_variables.v =
         {SaveEntries[i].key : i \in {j \in DOMAIN SaveEntries : Resolves(SaveEntries[j])}}
    /\ \A i \in DOMAIN SaveEntries :
         Resolves(SaveEntries[i]) =>
           ret.attempt.saved_variables.v[SaveEntries[i].key] = Resolved(SaveEntries[i]).value
    /\ \A key \in DOMAIN ret.attempt.saved_variables.v :
         /\ key \in DOMAIN mem[ret.sid].variables
         /\ mem[ret.sid].variables[key] = ret.attempt.saved_variables.v[key]
    /\ DOMAIN mem[ret.sid].variables =
         DOMAIN ret.store_before \cup DOMAIN ret.attempt.saved_variables.v
    /\ \A key \in DOMAIN ret.store_before \ DOMAIN ret.attempt.saved_variables.v :
         mem[ret.sid].variables[key] = ret.store_before[key]

\* The attempts of the log that summary leaves out (excluded or failed) and
\* that saved the variable named n.
DroppedSavers(attempts, remove_set, n) ==
  {i \in DOMAIN attempts :
     /\ ~IsRetained(attempts[i], remove_set)
     /\ Len(n) = 1 /\ n[1] \in DOMAIN attempts[i].saved_variables.v}

\* Retained step U requires the non-preset variable n, which no retained
\* step saves.
SavedByNoRetained(R, U, n) ==
  /\ n \in find_required_variables(R[U].request)
  /\ ~InStore(n, Presets)
  /\ Savers(R, n) = {}

\* C25: dependencies are checked over the retained sequence only: when a
\* non-preset variable required by retained step U is saved by no retained
\* step (only by excluded or failed attempts), summary reports it as used
\* in U but never saved, also when the session's variable store holds it.
C25_NeverSavedOverRetained ==
  ret.op = "summary" =>
    LET R == RetainedSeq(TheAttempts, ret.remove_set)
    IN \A U \in DOMAIN R :
         \A n \in find_required_variables(R[U].request) :
           SavedByNoRetained(R, U, n) =>
             \E e \in ret.validation_errors :
               /\ e.kind = "never saved"
               /\ e.var = n
               /\ U \in SeqToSet(e.use_steps)

\* C25, its case: the variable is in the store, saved by an excluded
\* attempt only, and a retained step requires it.
C25_Witness ==
  /\ ret.op = "summary"
  /\ LET R == RetainedSeq(TheAttempts, ret.remove_set)
     IN \E U \in DOMAIN R :
          \E n \in find_required_variables(R[U].request) :
            /\ SavedByNoRetained(R, U, n)
            /\ InStore(n, mem[ret.sid].variables)
            /\ DroppedSavers(TheAttempts, ret.remove_set, n) # {}

\* A diagnostic of the last summary about variable n at step U.
DiagnosticsAt(n, U) ==
  {e \in ret.validation_errors :
     /\ e.var = n
     /\ \/ e.kind = "used before saved" /\ e.use_step = U
        \/ e.kind = "never saved" /\ U \in SeqToSet(e.use_steps)}

\* C26: summary emits no false diagnostic: when a variable required by
\* retained step U is a preset or is saved by a retained step at a position
\* strictly less than U, summary reports no diagnostic for that variable at
\* step U, also when step U itself or a later retained step saves it again.
C26_NoFalseDiagnostic ==
  ret.op = "summary" =>
    LET R == RetainedSeq(TheAttempts, ret.remove_set)
    IN \A U \in DOMAIN R :
         \A n \in find_required_variables(R[U].request) :
           (InStore(n, Presets) \/ \E S \in Savers(R, n) : S < U) =>
             DiagnosticsAt(n, U) = {}

\* The strings of val that no sensitive key leads to (those the redaction
\* leaves as they are).
RECURSIVE OpenStrings(_)
OpenStrings(val) ==
  IF val.k = "str" THEN {val.v}
  ELSE IF val.k = "dict"
  THEN UNION {OpenStrings(val.v[key]) : key \in {x \in DOMAIN val.v : ~IsSensitiveKey(x)}}
  ELSE IF val.k = "list" THEN UNION {OpenStrings(val.v[i]) : i \in DOMAIN val.v}
  ELSE {}

\* The names of the {name} tokens in the strings of val outside the values
\* of sensitive keys.
OpenTokens(val) == UNION {SeqToSet(FindAll(str)) : str \in OpenStrings(val)}

\* The attempt the k-th step of the last summary was compiled from.
SourceOf(k) == TheAttempts[RetainedPositions(TheAttempts, ret.remove_set, 1)[k]]

\* C27: each compiled step is built from its attempt's request, not from
\* resolved_request: the step's request is the redaction of the attempt's
\* request (the {name} tokens outside redacted values are kept, none is
\* replaced by a value of the store), its save is the attempt's save_config
\* and its expect.status_code the status code the attempt observed.
C27_StepFromOriginalRequest ==
  ret.op = "summary" =>
    /\ Len(TheScenario.steps) = Len(RetainedPositions(TheAttempts, ret.remove_set, 1))
    /\ \A k \in DOMAIN TheScenario.steps :
         /\ TheScenario.steps[k].request = redact_sensitive_values(SourceOf(k).request)
         /\ \A n \in OpenTokens(SourceOf(k).request) :
              n \in OpenTokens(TheScenario.steps[k].request)
         /\ TheScenario.steps[k].save = SourceOf(k).save_config
         /\ TheScenario.steps[k].expect.status_code = SourceOf(k).response.status_code

\* C27, its case: summary compiled two steps, one from an attempt whose
\* request had a token replaced by a saved value before it was sent.
C27_Witness ==
  /\ ret.op = "summary"
  /\ Len(TheScenario.steps) = 2
  /\ \E k \in DOMAIN TheScenario.steps :
       /\ ~SourceOf(k).save_config.none
       /\ \E n \in OpenTokens(SourceOf(k).request) :
            /\ InStore(n, mem[ret.sid].variables)
            /\ ~InStore(n, Presets)
            /\ n \notin OpenTokens(SourceOf(k).resolved_request)

\* The log of session s after the step extends its log before the step.
LogExtended(s) ==
  /\ Len(mem'[s].attempts) >= Len(mem[s].attempts)
  /\ SubSeq(mem'[s].attempts, 1, Len(mem[s].attempts)) = mem[s].attempts

\* The step is a summary of the session the last summary was made on, and
\* the attempt at log position p, which the last summary excluded, is a
\* step of the scenario this summary writes.
IncludedAgain(p) ==
  LET P == RetainedPositions(mem'[ret'.sid].attempts, ret'.remove_set, 1)
      steps == final_yaml_file'[ScenarioName[ret'.sid]].steps
  IN /\ Len(steps) = Len(P)
     /\ \E k \in DOMAIN P :
          /\ P[k] = p
          /\ steps[k].operation_id = mem[ret.sid].attempts[p].operation_id
          /\ steps[k].request = redact_sensitive_values(mem[ret.sid].attempts[p].request)

\* C28: the attempt log of a session is append-only: over every execute,
\* status, summary and rerun, each attempt of the log keeps its position
\* and its fields; status, summary and rerun leave the log and the variable
\* store as they are; and a successful attempt that a summary excluded is a
\* step of a later summary that does not exclude it.
C28_LogAppendOnly ==
  [][(ret'.op \in {"execute", "status", "summary", "rerun"} /\ ret' # ret)
     => /\ \A s \in Sessions : LogExtended(s)
        /\ ret'.op \in {"status", "summary", "rerun"} => UNCHANGED mem
        /\ (ret.op = "summary" /\ ret'.op = "summary" /\ ret'.sid = ret.sid)
             => \A i \in ret.remove_set \ ret'.remove_set :
                  (i < Len(mem[ret.sid].attempts) /\ mem[ret.sid].attempts[i + 1].success)
                    => IncludedAgain(i + 1)]_vars

\* C28, its case: summary excluded a successful attempt of a log of two,
\* and the log still holds both.
C28_Witness ==
  /\ ret.op = "summary"
  /\ Len(TheAttempts) = 2
  /\ \E i \in ret.remove_set : i < 2 /\ TheAttempts[i + 1].success
  /\ ret.final_steps < ret.success_attempts

\* The step is a summary of the session the last summary was made on, with
\* the same remove set, the session being as it was.
SameSummaryAgain ==
  /\ ret.op = "summary" /\ ret'.op = "summary"
  /\ ret'.sid = ret.sid
  /\ ret'.remove_set = ret.remove_set
  /\ mem'[ret.sid] = mem[ret.sid]

\* The scenario file after the step holds the steps compiled by the step's
\* summary, and no other: as many as the summary returned, the k-th one
\* numbered k and built from the k-th retained attempt.
OnlyLatestSteps ==
  LET P == RetainedPositions(mem'[ret'.sid].attempts, ret'.remove_set, 1)
      file == final_yaml_file'[ScenarioName[ret'.sid]]
  IN /\ file.exists
     /\ file.session = ret'.sid
     /\ Len(file.steps) = ret'.final_steps
     /\ Len(file.steps) = Len(P)
     /\ \A k \in DOMAIN P :
          /\ file.steps[k].name.number = k
          /\ file.steps[k].operation_id = mem'[ret'.sid].attempts[P[k]].operation_id
          /\ file.steps[k].request =
               redact_sensitive_values(mem'[ret'.sid].attempts[P[k]].request)

RECURSIVE ReplayStoreAt(_, _)
ReplayStoreAt(attempts, k) ==
  IF k = 1 THEN Presets
  ELSE Override(ReplayStoreAt(attempts, k - 1), attempts[k - 1].saved_variables.v)

\* The k-th attempt of the replay was resolved against the presets and the
\* values the replayed steps before it saved, and nothing else.
ResolvedFromReplay(attempts, k) ==
  attempts[k].resolved_request =
    ResolveRequest(attempts[k].request, ReplayStoreAt(attempts, k))

\* C30: rerun starts from a variable store that holds exactly the presets,
\* whatever the store of the originating session holds: each replayed step
\* is resolved against the presets and the values saved by the replayed
\* steps before it; and the replay session is another session than the
\* originating one, whose object and files rerun leaves as they are.
C30_ReplayFromPresets ==
  [][(ret'.op = "rerun" /\ ret' # ret /\ ret'.has_scenario)
     => /\ \A k \in DOMAIN ret'.rerun_session.attempts :
             ResolvedFromReplay(ret'.rerun_session.attempts, k)
        /\ ~ret'.raised =>
             ret'.variables =
               ReplayStoreAt(ret'.rerun_session.attempts,
                             Len(ret'.rerun_session.attempts) + 1)
        /\ UNCHANGED <<mem, session_file, draft_yaml_file>>]_vars

\* C30, its case: the originating store holds an extracted value that a
\* replayed step refers to and that no replayed step before it saved: the
\* step was sent with the token as written.
C30_Witness ==
  /\ ret.op = "rerun"
  /\ ret.has_scenario
  /\ \E k \in DOMAIN TheReplay :
       \E n \in find_required_variables(TheReplay[k].request) :
         /\ InStore(n, mem[ret.sid].variables)
         /\ ~InStore(n, ReplayStoreAt(TheReplay, k))
         /\ HasToken(TheReplay[k].resolved_request, n[1])

\* The scenario file that session s reads and writes.
ScenarioOf(s) == final_yaml_file[ScenarioName[s]]

\* C31: the compiled scenario belongs to its session: summary on a session
\* overwrites only a scenario that this session compiled, and rerun on a
\* session replays the steps most recently compiled by summary on that
\* session, failing with the missing-scenario error when it never ran
\* summary, also when another session has the same scenario name.
C31_ScenarioPerSession ==
  [][/\ (ret'.op = "summary" /\ ret' # ret /\ ScenarioOf(ret'.sid).exists)
          => ScenarioOf(ret'.sid).session = ret'.sid
     /\ (ret'.op = "rerun" /\ ret' # ret)
          => /\ ret'.has_scenario <=> ret'.sid \in compiled[ScenarioName[ret'.sid]].by
             /\ ret'.has_scenario =>
                  /\ ScenarioOf(ret'.sid).session = ret'.sid
                  /\ Len(ret'.steps) = Len(ScenarioOf(ret'.sid).steps) \/ ret'.raised]_vars

\* What the i-th call of the last poll answered, and whether that answer
\* ends the polling: a successful response on which the condition holds.
PollAnswer(i) == execute_http(ret.request, ret.outcomes[i]).result
PollReady(i) ==
  PollAnswer(i).success /\ _evaluate_expect(PollAnswer(i).body, ret.expect_cel)

\* The calls of the last poll that would end it.
ReadyCalls == {i \in 1..ret.max_retries : PollReady(i)}

\* C32: poll_until_ready makes at most max_retries calls to execute_http:
\* it returns the result of the first call that is successful and
\* satisfies the condition and makes no call after it; when no call within
\* the budget does, it makes max_retries calls and returns the result of
\* the last one, a success or a failure.
C32_PollStopsAtFirstReady ==
  ret.op = "poll" =>
    /\ ret.calls <= ret.max_retries
    /\ ReadyCalls # {} =>
         /\ \A i \in ReadyCalls : ret.calls <= i
         /\ ret.calls \in ReadyCalls
         /\ ret.result = PollAnswer(ret.calls)
    /\ (ReadyCalls = {} /\ ret.max_retries > 0) =>
         /\ ret.calls = ret.max_retries
         /\ ret.result = PollAnswer(ret.max_retries)

\* C32, its case: the budget of two calls was used up and the last answer,
\* a success on which the condition does not hold, was returned.
C32_Witness ==
  /\ ret.op = "poll"
  /\ ret.max_retries = 2
  /\ ret.calls = 2
  /\ ReadyCalls = {}
  /\ ret.result.success
  /\ ~PollAnswer(1).success

\* The positions of the rerun's result list whose step was run by polling.
PolledSteps == {k \in DOMAIN ret.steps : IsPolled(TheScenario.steps[k])}

\* What the i-th call of the polling of step k answered.
StepAnswer(k, i) ==
  execute_http(TheReplay[k].resolved_request, ret.outcomes[k][i]).result

\* The condition of step k holds on the answer of the i-th call.
ConditionHeld(k, i) ==
  _evaluate_expect(StepAnswer(k, i).body, StepCel(TheScenario.steps[k]))

\* C33 (as stated): a polled replay step is reported with success = true,
\* and counted towards the overall success of rerun, only if its condition
\* evaluated true on some response within the retry budget.
C33_PolledSuccessMeansCondition ==
  (ret.op = "rerun" /\ ret.has_scenario) =>
    \A k \in PolledSteps :
      ret.steps[k].success =>
        \E i \in 1..TheScenario.steps[k].max_retries : ConditionHeld(k, i)

\* C33 (amended): a polled replay step is reported with success = true,
\* and counted towards the overall success of rerun, exactly when the last
\* response observed within the retry budget was successful: a successful
\* response on which the condition held or, the budget used up, the answer
\* of the last call, on which it need not hold.
C33_PolledSuccessIsLastResponse ==
  (ret.op = "rerun" /\ ret.has_scenario) =>
    \A k \in PolledSteps :
      /\ ret.steps[k].success = ret.responses[k].success
      /\ (ret.success /\ ~ret.raised) => ret.steps[k].success
      /\ \E i \in 1..TheScenario.steps[k].max_retries :
           /\ ret.responses[k] = StepAnswer(k, i)
           /\ \/ ConditionHeld(k, i) /\ StepAnswer(k, i).success
              \/ i = TheScenario.steps[k].max_retries

\* C33, its case: a polled step was reported successful although its
\* condition held on no response of the budget.
C33_Witness ==
  /\ ret.op = "rerun" /\ ret.has_scenario /\ ~ret.raised
  /\ \E k \in PolledSteps :
       /\ ret.steps[k].success
       /\ ret.success
       /\ \A i \in 1..TheScenario.steps[k].max_retries : ~ConditionHeld(k, i)

\* The step declares a retry budget and its expect carries a condition.
DeclaresPolling(step) == step.max_retries > 0 /\ StepCel(step) # <<>>

\* The steps of the scenario that the last rerun started: those it
\* reported, and the one that ended it with an exception.
StartedSteps == 1..(Len(ret.steps) + IF ret.raised THEN 1 ELSE 0)

\* The first of the answers to step k that ends a polling (a successful
\* response on which the condition holds); 0 when none does.
RECURSIVE FirstReady(_, _)
FirstReady(k, i) ==
  IF i > Len(ret.outcomes[k]) THEN 0
  ELSE IF /\ Dispatch(TheScenario.steps[k].request_type, TheScenario.steps[k].request,
                      ret.outcomes[k][i]).result.success
          /\ _evaluate_expect(ret.outcomes[k][i].body, StepCel(TheScenario.steps[k]))
  THEN i
  ELSE FirstReady(k, i + 1)

\* The executor calls a polling of step k makes, and those of one execute.
PollingCalls(k) ==
  ExecutorCalls(TheScenario.steps[k].request_type)
    * (IF FirstReady(k, 1) # 0 THEN FirstReady(k, 1) ELSE TheScenario.steps[k].max_retries)
SingleCall(k) == ExecutorCalls(TheScenario.steps[k].request_type)

RECURSIVE SumCalls(_, _)
SumCalls(calls, n) == IF n = 0 THEN 0 ELSE calls[n] + SumCalls(calls, n - 1)

\* C34 (as stated): in rerun, every step that declares max_retries > 0 and
\* whose expect carries a condition is executed by polling (repeated until
\* the condition holds or the budget is used up), for every request_type;
\* a step without retry parameters or without a condition is executed
\* exactly once.
C34_PollsEveryRequestType ==
  (ret.op = "rerun" /\ ret.has_scenario) =>
    ret.calls =
      SumCalls([k \in StartedSteps |->
                  IF DeclaresPolling(TheScenario.steps[k])
                  THEN PollingCalls(k) ELSE SingleCall(k)],
               Len(ret.steps) + IF ret.raised THEN 1 ELSE 0)

\* C34 (amended): in rerun, every step of request_type "http" that declares
\* max_retries > 0 and whose expect carries a condition is executed by
\* polling (repeated until the condition holds on a successful response or
\* the budget is used up); every other step (no retry parameters, no
\* condition, or another request_type) is executed exactly once.
C34_PollsHttpOnly ==
  (ret.op = "rerun" /\ ret.has_scenario) =>
    ret.calls =
      SumCalls([k \in StartedSteps |->
                  IF /\ DeclaresPolling(TheScenario.steps[k])
                     /\ TheScenario.steps[k].request_type = "http"
                  THEN PollingCalls(k) ELSE SingleCall(k)],
               Len(ret.steps) + IF ret.raised THEN 1 ELSE 0)

\* C34, its case: a cli step with a retry budget of two and a condition
\* that did not hold on its answer was executed once.
C34_Witness ==
  /\ ret.op = "rerun" /\ ret.has_scenario /\ ~ret.raised
  /\ Len(ret.steps) = 1
  /\ TheScenario.steps[1].request_type = "cli"
  /\ DeclaresPolling(TheScenario.steps[1])
  /\ TheScenario.steps[1].max_retries = 2
  /\ FirstReady(1, 1) = 0
  /\ ret.calls = 1

\* The number of "==" tokens of an expression.
RECURSIVE CountEq(_)
CountEq(expr) ==
  IF expr = <<>> THEN 0
  ELSE (IF Head(expr) = "==" THEN 1 ELSE 0) + CountEq(Tail(expr))

\* The left-hand side of an expression: what stands before its first "==",
\* blanks at both ends left out.
LeftHandSide(expr) ==
  Strip(SubSeq(Strip(expr, " "), 1, IndexFrom(Strip(expr, " "), "==", 1) - 1), " ")

RootedAtBody(expr) ==
  Len(LeftHandSide(expr)) >= 2 /\ LeftHandSide(expr)[1] = "body" /\ LeftHandSide(expr)[2] = "."

\* C35: the condition evaluator returns false for every non-empty
\* expression that does not hold exactly one "==" token (none, or two or
\* more) and for every expression whose left-hand side does not start with
\* "body.", whatever the response body is.
C35_MalformedConditionIsFalse ==
  (ret.op = "expect" /\ ret.expect # <<>>) =>
    /\ CountEq(ret.expect) # 1 => ~ret.result
    /\ (CountEq(ret.expect) >= 1 /\ ~RootedAtBody(ret.expect)) => ~ret.result

\* The path and the literal of an expression "body.<path> == <literal>",
\* the literal without the quotes around it.
PathOf(expr) == SubSeq(LeftHandSide(expr), 3, Len(LeftHandSide(expr)))
LiteralOf(expr) ==
  Strip(Strip(Strip(SubSeq(Strip(expr, " "),
                           IndexFrom(Strip(expr, " "), "==", 1) + 1,
                           Len(Strip(expr, " "))), " "), "'"), "\"")

\* What extract_value finds in the body of the last evaluation at the path
\* of its expression.
Extracted == extract_value(ret.body, <<"body", ".">> \o PathOf(ret.expect))

\* The last evaluation was of "body.P == L" with a path that extract_value
\* resolves in the body.
ResolvedComparison ==
  /\ ret.op = "expect"
  /\ CountEq(ret.expect) = 1
  /\ RootedAtBody(ret.expect)
  /\ ~Extracted.raised
  /\ Extracted.value # JNull

\* C36 (as stated): the condition evaluator resolves its left-hand path as
\* extraction does: for every body, every path P that extract_value
\* resolves (key[idx] segments included) and every literal L, the condition
\* "body.P == L" is true exactly when the string form of
\* extract_value(body, "body.P") equals L without its surrounding quotes.
C36_ConditionPathAsExtraction ==
  ResolvedComparison =>
    (ret.result <=> PyStr(Extracted.value) = LiteralOf(ret.expect))

\* C36 (amended): for every body, every path P of bare keys (no key[idx]
\* segment) that extract_value resolves and every literal L, the condition
\* "body.P == L" is true exactly when the string form of
\* extract_value(body, "body.P") equals L without its surrounding quotes.
C36_BareKeyPathAsExtraction ==
  (ResolvedComparison /\ IndexFrom(PathOf(ret.expect), "[", 1) = 0) =>
    (ret.result <=> PyStr(Extracted.value) = LiteralOf(ret.expect))

\* C36, its case: a condition on a nested path of bare keys, its literal
\* in quotes, was evaluated true.
C36_Witness ==
  /\ ResolvedComparison
  /\ IndexFrom(PathOf(ret.expect), "[", 1) = 0
  /\ IndexFrom(PathOf(ret.expect), ".", 1) # 0
  /\ IndexFrom(ret.expect, "'", 1) # 0
  /\ ret.result

\* The file lists every attempt of the log, in index order.
ListsLog(file, attempts) ==
  /\ file.exists
  /\ Len(file.attempts) = Len(attempts)
  /\ \A i \in DOMAIN attempts :
       /\ file.attempts[i].index = i - 1
       /\ file.attempts[i].index = attempts[i].index
       /\ file.attempts[i].operation_id = attempts[i].operation_id
       /\ file.attempts[i].success = attempts[i].success

\* C37: once an attempt has been appended to a session's log and the
\* operation that appended it has returned (execute, and the steps of
\* rerun, polled steps included), the session file and the draft log of
\* that session list every attempt of the log, failures included, in index
\* order.
C37_FilesListEveryAttempt ==
  /\ (ret.op = "execute" /\ ~ret.raised) =>
       /\ ListsLog(session_file[ret.sid], TheAttempts)
       /\ ListsLog(draft_yaml_file[ScenarioName[ret.sid]], TheAttempts)
  /\ (ret.op = "rerun" /\ ret.has_scenario /\ TheReplay # <<>>) =>
       /\ ListsLog(ret.rerun_session_file, TheReplay)
       /\ ListsLog(ret.rerun_draft_file, TheReplay)

\* The path (after "body." is cut off) starts with a segment key[idx], and
\* the response holds a sequence under key.
StartsWithIndex(response, path) ==
  /\ Len(path) >= 4
  /\ path[2] = "[" /\ path[4] = "]"
  /\ response.k = "dict"
  /\ path[1] \in DOMAIN response.v
  /\ response.v[path[1]].k = "list"

\* idx is the literal of an integer with 0 <= idx < length of the sequence.
IndexInRange(idx_str, sequence) ==
  /\ idx_str \in DOMAIN IntLiteral
  /\ IntLiteral[idx_str] >= 0
  /\ IntLiteral[idx_str] < Len(sequence.v)

\* C38: an index segment key[idx] addresses an element only when idx is a
\* non-negative integer with 0 <= idx < length of the sequence; for every
\* other idx, negative integers included, extract_value returns not-found.
C38_IndexOutOfRangeNotFound ==
  (/\ ret.op = "extract"
   /\ StartsWithIndex(ret.response, StripBody(ret.eval_path))
   /\ ~IndexInRange(StripBody(ret.eval_path)[3],
                    ret.response.v[StripBody(ret.eval_path)[1]]))
  => (~ret.raised /\ ret.value = JNull)

\* The simultaneous replacement of the tokens of a string: the string is
\* read once, left to right; a token whose name is in the store gives the
\* string form of its value, every other lexeme is kept, and what was put
\* in is not read again.
RECURSIVE ReplaceAtOnceFrom(_, _, _)
ReplaceToken(s, i, j, variables) ==
  IF j = 0 THEN SubSeq(s, i, Len(s))
  ELSE IF j = i + 1 THEN <<s[i]>> \o ReplaceAtOnceFrom(s, i + 1, variables)
  ELSE (IF InStore(SubSeq(s, i + 1, j - 1), variables)
        THEN PyStr(variables[s[i + 1]])
        ELSE SubSeq(s, i, j))
       \o ReplaceAtOnceFrom(s, j + 1, variables)

ReplaceAtOnceFrom(s, i, variables) ==
  IF i > Len(s) THEN <<>>
  ELSE IF s[i] # "{" THEN <<s[i]>> \o ReplaceAtOnceFrom(s, i + 1, variables)
  ELSE ReplaceToken(s, i, IndexFrom(s, "}", i + 1), variables)

RECURSIVE ReplaceAtOnce(_, _)
ReplaceAtOnce(obj, variables) ==
  IF obj.k = "str" THEN JStr(ReplaceAtOnceFrom(obj.v, 1, variables))
  ELSE IF obj.k = "dict"
  THEN JDict([key \in DOMAIN obj.v |-> ReplaceAtOnce(obj.v[key], variables)])
  ELSE IF obj.k = "list"
  THEN JList([i \in DOMAIN obj.v |-> ReplaceAtOnce(obj.v[i], variables)])
  ELSE obj

\* C39: substitute_variables replaces only the {name} occurrences of the
\* original string: its result is the simultaneous replacement of each
\* original token whose name is in the store by the string form of its
\* value, so that text put in as a value is not substituted again and the
\* order of the tokens does not matter.
C39_SimultaneousReplacement ==
  ret.op = "substitute" => ret.result = ReplaceAtOnce(ret.request, ret.variables)

====
